---- MODULE Spec2Model ----
(***************************************************************************)
(* A model of the lumberjack persistence backends.                         *)
(*                                                                         *)
(* IndexedDBBackend (src/src/Backends/IndexedDBBackend.ts) keeps an        *)
(* in-memory queue `toFlush`, swaps it into a private batch on every flush *)
(* cycle, optionally compresses the batch and commits it in one IndexedDB  *)
(* transaction.  Utilities.encode (src/unnamed/part_001) turns every log   *)
(* argument into a string before it is queued.  At startup clearOldData()  *)
(* prunes the store by age and by count; export() and exportBatch() read   *)
(* the store through a cursor and expand compressed entries.               *)
(*                                                                         *)
(* Three specifications share the actions: Spec (logging and flushing into *)
(* a fresh store), EvictionSpec (the startup over the store an earlier     *)
(* instance left) and ExportSpec (export and batch export of that store).  *)
(* EncodeSpec logs every kind of argument, FairSpec is Spec without        *)
(* compression under the fairness of the platform's scheduling,            *)
(* FacadeSpec puts the Lumberjack facade (src/unnamed/part_003) in front   *)
(* of the backend, and FileSpec is the FileBackend on its write stream.    *)
(* OverlapSpec runs the startup pruning while records are logged and       *)
(* flushed, and ExportFairSpec is ExportSpec under fair scheduling, with a *)
(* consumer whose promises may be rejected.                                *)
(***************************************************************************)
EXTENDS Integers, Sequences, FiniteSets, TLC

(***************************************************************************)
(* Bounds of the model.                                                    *)
(***************************************************************************)
MaxLogs == 2        \* log() calls in one behaviour
MaxFlush == 2       \* flushToDatabase() invocations in one behaviour
MaxErrorEvents == 2 \* error events of one failed transaction that reach its onerror
MaxStored == 3      \* records an earlier instance left in the store

(***************************************************************************)
(* Inputs: the instants Date.now() returns and the values the option       *)
(* minimumRecordsToCompress is constructed with.                           *)
(***************************************************************************)
Times == {0, 1}
Thresholds == {1, 2}

\* The instants Date.now() returns to clearOldData() (line 85).
PassTimes == {1, 2}

\* The numbers the options expire and maxNumberOfLogs are constructed with,
\* and the values of the parameter entriesAtOnce of exportBatch().
ExpireValues == {1, 2}
LimitValues == {1, 2, 3}
BatchSizes == {1, 2}

\* The records of the scenario "log R1..R5, flush once, keep three".
ScenarioNumbers == 1..5

(***************************************************************************)
(* State of one IndexedDBBackend instance and of its environment.          *)
(***************************************************************************)
VARIABLES
    options,               \* this.options
    hasCompressionStream,  \* typeof CompressionStream !== "undefined"
    dbState,               \* the open request: "opening", "upgrading", "open", "failed"
    indexedDB,             \* TRUE once this.indexedDB holds an IDBDatabase
    timerArmed,            \* setupFlush() has run
    toFlush,               \* this.toFlush, the pending queue
    store,                 \* the "logs" object store, in key (insertion) order
    cycles,                \* the invocations of flushToDatabase(), in call order
    txns,                  \* the live readwrite transactions, in creation order
    now,                   \* the last value Date.now() returned; time never runs backwards
    built,                 \* records built by log() so far
    raised,                \* TRUE once a log() call has raised to its caller
    openErrorReported,     \* console.error of openRequest.onerror
    flushed,               \* the batches earlier instances committed, in commit order
    eviction,              \* the eviction pass of clearOldData()
    exportCall,            \* the invocation of export()
    batchCall,             \* the invocation of exportBatch()
    lumberjack,            \* the Lumberjack facade in front of the backend
    fileBackend            \* a FileBackend instance and its write stream

vars == <<options, hasCompressionStream, dbState, indexedDB, timerArmed, toFlush, store,
          cycles, txns, now, built, raised, openErrorReported, flushed, eviction,
          exportCall, batchCall, lumberjack, fileBackend>>

\* What the flush path never touches.
readers == <<flushed, eviction, exportCall, batchCall>>

\* The objects no method of IndexedDBBackend touches.
apart == <<lumberjack, fileBackend>>

(***************************************************************************)
(* JavaScript values.  Primitives and arrays are tagged; an object is a    *)
(* TLA+ record (a function from property names to values).                 *)
(***************************************************************************)
Num(n) == [t |-> "number", n |-> n]
Str(s) == [t |-> "string", s |-> s]
Arr(a) == [t |-> "array", a |-> a]
Null == [t |-> "null"]
Infinity == [t |-> "infinity"]

\* The array this.namespaces of the facade, held by reference: the facade
\* creates it once (part_003, line 30) and changes it in place.
Live == [t |-> "live"]

\* What a reader of a property value finds: the elements the facade's array
\* holds when it is read, or the value itself.
Deref(v) == IF v = Live THEN Arr(lumberjack.namespaces) ELSE v

\* The records as JSON.stringify (line 157) and the structured clone of
\* dataStore.add (line 168) read them.
Snapshot(data) == [i \in DOMAIN data |-> [key \in DOMAIN data[i] |-> Deref(data[i][key])]]

(***************************************************************************)
(* Arguments handed to log().  An argument is described by what            *)
(* Utilities.encode looks at: its truthiness, its typeof, what             *)
(* JSON.stringify does with it (json = "THROWS" when it raises, as it does *)
(* for a cyclic object), the number of own enumerable keys, the typeof of  *)
(* its constructor property and that constructor's name, and the result of *)
(* toString().                                                             *)
(***************************************************************************)
ArgZero == [truthy |-> FALSE, typeof |-> "number", json |-> "0", keys |-> 0,
            ctorType |-> "function", ctorName |-> "Number", str |-> "0"]
ArgSeven == [truthy |-> TRUE, typeof |-> "number", json |-> "7", keys |-> 0,
             ctorType |-> "function", ctorName |-> "Number", str |-> "7"]
ArgFalse == [truthy |-> FALSE, typeof |-> "boolean", json |-> "false", keys |-> 0,
             ctorType |-> "function", ctorName |-> "Boolean", str |-> "false"]
ArgEmptyString == [truthy |-> FALSE, typeof |-> "string", json |-> "\"\"", keys |-> 0,
                   ctorType |-> "function", ctorName |-> "String", str |-> ""]
ArgText == [truthy |-> TRUE, typeof |-> "string", json |-> "\"a\"", keys |-> 0,
            ctorType |-> "function", ctorName |-> "String", str |-> "a"]
ArgPlainObject == [truthy |-> TRUE, typeof |-> "object", json |-> "{\"a\":1}", keys |-> 1,
                   ctorType |-> "function", ctorName |-> "Object", str |-> "[object Object]"]
ArgMethodsOnly == [truthy |-> TRUE, typeof |-> "object", json |-> "{}", keys |-> 1,
                   ctorType |-> "function", ctorName |-> "Widget", str |-> "[object Object]"]
ArgExotic == [truthy |-> TRUE, typeof |-> "object", json |-> "{}", keys |-> 1,
              ctorType |-> "object", ctorName |-> "Widget", str |-> "[object Object]"]
ArgCyclic == [truthy |-> TRUE, typeof |-> "object", json |-> "THROWS", keys |-> 1,
              ctorType |-> "function", ctorName |-> "Object", str |-> "[object Object]"]

AllArguments == {ArgZero, ArgSeven, ArgFalse, ArgEmptyString, ArgText, ArgPlainObject,
                 ArgMethodsOnly, ArgExotic, ArgCyclic}

\* The arguments the log() calls of the batched-store specification draw from.
LogArguments == {ArgSeven, ArgCyclic}

(***************************************************************************)
(* Utilities.encode.  The result is [threw |-> TRUE] when JSON.stringify   *)
(* raises, and [threw |-> FALSE, value |-> <string>] otherwise.            *)
(***************************************************************************)
Returned(s) == [threw |-> FALSE, value |-> s]
Threw == [threw |-> TRUE]

encode(item) ==
    IF ~item.truthy THEN Returned("")
    ELSE IF item.typeof = "object"
         THEN IF item.json = "THROWS" THEN Threw
              ELSE IF item.json = "{}" /\ item.keys # 0 /\ item.ctorType = "object"
                   THEN Returned(item.ctorName)
                   ELSE Returned(item.json)
         ELSE Returned(item.str)

(***************************************************************************)
(* A stored record (StoredDetails) is the object log() builds:             *)
(* {...details, timestamp, arguments, message}.  Property order is the     *)
(* insertion order of that literal.                                        *)
(***************************************************************************)
PropertyOrder == <<"timestamp", "arguments", "namespaces", "level", "message">>

(***************************************************************************)
(* JSON.stringify(data).  JSON text is a sequence of tokens; commas and    *)
(* colons are implied by position.  A number becomes a number literal, a   *)
(* string a quoted string, null the literal null, an array its elements    *)
(* between brackets, an object its members (name, value) between braces.   *)
(***************************************************************************)
Punct(p) == [p |-> p]
NumLit(n) == [num |-> n]
StrLit(s) == [str |-> s]
NullLit == [lit |-> "null"]

RECURSIVE StringifyElements(_, _)
StringifyValue(v) ==
    IF v.t = "number" THEN <<NumLit(v.n)>>
    ELSE IF v.t = "string" THEN <<StrLit(v.s)>>
    ELSE IF v.t = "array" THEN <<Punct("[")>> \o StringifyElements(v.a, 1) \o <<Punct("]")>>
    ELSE <<NullLit>>

StringifyElements(a, i) ==
    IF i > Len(a) THEN <<>>
    ELSE StringifyValue(a[i]) \o StringifyElements(a, i + 1)

RECURSIVE StringifyMembers(_, _)
StringifyMembers(obj, i) ==
    IF i > Len(PropertyOrder) THEN <<>>
    ELSE LET key == PropertyOrder[i]
         IN  (IF key \in DOMAIN obj THEN <<StrLit(key)>> \o StringifyValue(obj[key]) ELSE <<>>)
             \o StringifyMembers(obj, i + 1)

StringifyObject(obj) == <<Punct("{")>> \o StringifyMembers(obj, 1) \o <<Punct("}")>>

RECURSIVE StringifyObjects(_, _)
StringifyObjects(data, i) ==
    IF i > Len(data) THEN <<>>
    ELSE StringifyObject(data[i]) \o StringifyObjects(data, i + 1)

JSONStringify(data) == <<Punct("[")>> \o StringifyObjects(data, 1) \o <<Punct("]")>>

(***************************************************************************)
(* JSON.parse(content): a recursive-descent reading of the tokens.  Every  *)
(* parse step returns the value read and the index of the next token.      *)
(***************************************************************************)
RECURSIVE ParseValue(_, _), ParseElements(_, _, _), ParseMembers(_, _, _), ParseObjects(_, _, _)
ParseValue(toks, i) ==
    LET tok == toks[i]
    IN  IF "num" \in DOMAIN tok THEN [v |-> Num(tok.num), i |-> i + 1]
        ELSE IF "str" \in DOMAIN tok THEN [v |-> Str(tok.str), i |-> i + 1]
        ELSE IF tok = Punct("[") THEN ParseElements(toks, i + 1, <<>>)
        ELSE [v |-> Null, i |-> i + 1]

ParseElements(toks, i, acc) ==
    IF toks[i] = Punct("]") THEN [v |-> Arr(acc), i |-> i + 1]
    ELSE LET e == ParseValue(toks, i)
         IN  ParseElements(toks, e.i, Append(acc, e.v))

ParseMembers(toks, i, acc) ==
    IF toks[i] = Punct("}") THEN [v |-> acc, i |-> i + 1]
    ELSE LET e == ParseValue(toks, i + 1)
         IN  ParseMembers(toks, e.i, (toks[i].str :> e.v) @@ acc)

ParseObjects(toks, i, acc) ==
    IF toks[i] = Punct("]") THEN acc
    ELSE LET e == ParseMembers(toks, i + 1, <<>>)
         IN  ParseObjects(toks, e.i, Append(acc, e.v))

JSONParse(toks) == ParseObjects(toks, 2, <<>>)

(***************************************************************************)
(* new TextEncoder().encode(text) and new TextDecoder().decode(buffer):    *)
(* a fixed-width byte code, two bytes for every token.  The first byte     *)
(* tells the kind of token; the second is the value of a number, or the    *)
(* index of a string among the strings the model uses, or 0.               *)
(***************************************************************************)
FixedStrings ==
    <<"timestamp", "arguments", "namespaces", "level", "message", "", "0", "7", "a", "{}",
      "{\"a\":1}", "Widget", "g", "h", "ERROR", "WARNING", "NOTICE", "INFO", "DEBUG">>

MessageText(n) == "m" \o ToString(n)

StringAt(i) ==
    IF i <= Len(FixedStrings) THEN FixedStrings[i] ELSE MessageText(i - Len(FixedStrings))

\* The numbers of the records of the model: those log() builds, those an
\* earlier instance left, and those of the scenario.
MessageNumbers == (1..(MaxLogs + 1)) \union (1..MaxStored) \union ScenarioNumbers

StringIndex(s) ==
    CHOOSE i \in 1..(Len(FixedStrings) + Cardinality(MessageNumbers)) : StringAt(i) = s

TokenBytes(tok) ==
    IF tok = Punct("[") THEN <<1, 0>>
    ELSE IF tok = Punct("]") THEN <<2, 0>>
    ELSE IF tok = Punct("{") THEN <<3, 0>>
    ELSE IF tok = Punct("}") THEN <<4, 0>>
    ELSE IF "num" \in DOMAIN tok THEN <<6, tok.num>>
    ELSE IF "str" \in DOMAIN tok THEN <<7, StringIndex(tok.str)>>
    ELSE <<5, 0>>

TextEncode(toks) ==
    [i \in 1..(2 * Len(toks)) |-> TokenBytes(toks[(i + 1) \div 2])[2 - (i % 2)]]

BytesToken(kind, value) ==
    IF kind = 1 THEN Punct("[")
    ELSE IF kind = 2 THEN Punct("]")
    ELSE IF kind = 3 THEN Punct("{")
    ELSE IF kind = 4 THEN Punct("}")
    ELSE IF kind = 6 THEN NumLit(value)
    ELSE IF kind = 7 THEN StrLit(StringAt(value))
    ELSE NullLit

TextDecode(bytes) ==
    [i \in 1..(Len(bytes) \div 2) |-> BytesToken(bytes[2 * i - 1], bytes[2 * i])]

(***************************************************************************)
(* CompressionStream("deflate") and DecompressionStream("deflate"): a      *)
(* lossless run-length code, a sequence of <<run length, byte>> pairs.     *)
(* Both directions split their input in halves, so that the depth of the   *)
(* evaluation grows with the logarithm of the length.                      *)
(***************************************************************************)
\* The runs of two adjacent pieces; a run that crosses the cut is joined.
JoinRuns(left, right) ==
    IF left[Len(left)] = right[2]
    THEN SubSeq(left, 1, Len(left) - 2) \o <<left[Len(left) - 1] + right[1], right[2]>>
         \o SubSeq(right, 3, Len(right))
    ELSE left \o right

RECURSIVE DeflateRange(_, _, _)
DeflateRange(bytes, lo, hi) ==
    IF lo = hi THEN <<1, bytes[lo]>>
    ELSE LET mid == (lo + hi) \div 2
         IN  JoinRuns(DeflateRange(bytes, lo, mid), DeflateRange(bytes, mid + 1, hi))

Deflate(bytes) == IF Len(bytes) = 0 THEN <<>> ELSE DeflateRange(bytes, 1, Len(bytes))

\* The bytes of the runs lo..hi of the buffer.
RECURSIVE InflateRange(_, _, _)
InflateRange(buffer, lo, hi) ==
    IF lo = hi THEN [k \in 1..buffer[2 * lo - 1] |-> buffer[2 * lo]]
    ELSE LET mid == (lo + hi) \div 2
         IN  InflateRange(buffer, lo, mid) \o InflateRange(buffer, mid + 1, hi)

Inflate(buffer) ==
    IF Len(buffer) = 0 THEN <<>> ELSE InflateRange(buffer, 1, Len(buffer) \div 2)

CompressLiveQueue(data) == Deflate(TextEncode(JSONStringify(toFlush)))

\* flushToDatabase, lines 156-162: the bytes of the JSON text, deflated.
Compress(data) == Deflate(TextEncode(JSONStringify(data)))

\* IndexedDBBackend.decompress.
decompress(buffer) == JSONParse(TextDecode(Inflate(buffer)))

(***************************************************************************)
(* Before any call: no eviction pass was started, export() and             *)
(* exportBatch() were not invoked.                                         *)
(***************************************************************************)
NoEviction ==
    [started |-> 0, armedAtStart |-> FALSE, age |-> "none", count |-> "none", oldest |-> 0,
     numberLookedAt |-> 0, cursor |-> 0, before |-> <<>>, reported |-> FALSE]

NotExporting ==
    [pc |-> "idle", calledIn |-> "", outcome |-> "none", cursor |-> 0, data |-> <<>>,
     reported |-> FALSE]

NotExportingBatches ==
    [pc |-> "idle", calledIn |-> "", outcome |-> "none", entriesAtOnce |-> 0, cursor |-> 0,
     buffered |-> <<>>, empty |-> FALSE, decompressing |-> {}, remainingPromises |-> <<>>,
     waits |-> {}, reported |-> FALSE]

\* The facade after its constructor (part_003, lines 26-33): an empty
\* namespace stack.  atCall lists the stack each sendToBackend() call read;
\* calls counts the calls of group(), groupCollapsed() and groupEnd().
NewLumberjack == [namespaces |-> <<>>, atCall |-> <<>>, calls |-> 0]

\* The stream backend after its constructor (lines 362-374) and setup():
\*   ready      this.ready;  waiting  this.waiting;
\*   written    the chunks handed to stream.write(), in call order;
\*   needDrain  the stream reported backpressure and has not drained yet;
\*   deferred   the message arrays of the once("drain") listeners;
\*   logged     the number of log() calls.
NewFileBackend ==
    [ready |-> FALSE, waiting |-> <<>>, written |-> <<>>, needDrain |-> FALSE,
     deferred |-> <<>>, logged |-> 0]

\* A fresh database and an instance constructed with {expire: null,
\* maxNumberOfLogs: null}: clearOldData() opens no cursor.
Init ==
    /\ options \in [minimumRecordsToCompress : Thresholds, expire : {Null},
                     maxNumberOfLogs : {Null}]
    /\ flushed = <<>>
    /\ eviction = NoEviction
    /\ exportCall = NotExporting
    /\ batchCall = NotExportingBatches
    /\ hasCompressionStream \in BOOLEAN
    /\ dbState = "opening"
    /\ indexedDB = FALSE
    /\ timerArmed = FALSE
    /\ toFlush = <<>>
    /\ store = <<>>
    /\ cycles = <<>>
    /\ txns = <<>>
    /\ now = 0
    /\ built = 0
    /\ raised = FALSE
    /\ openErrorReported = FALSE
    /\ lumberjack = NewLumberjack
    /\ fileBackend = NewFileBackend

(***************************************************************************)
(* clearOldData().  Both passes are readwrite transactions on the store    *)
(* "logs", created one after the other by the same call, so the count      *)
(* pass starts when the age pass is over.  The record `eviction` holds:    *)
(*   started         the number of calls of clearOldData();                *)
(*   armedAtStart    whether setupFlush() had run when the call was made;  *)
(*   age, count      "none", "skipped", "waiting", "running", "complete",  *)
(*                   "failed";                                             *)
(*   oldest          line 85; numberLookedAt, line 110;                    *)
(*   cursor          the position of the entry the "prev" cursor of the    *)
(*                   count pass delivers next, 0 when none is left;        *)
(*   before          the store when the running transaction started: an    *)
(*                   aborted transaction leaves the store as it found it;  *)
(*   reported        console.error was called by a cursor's onerror.       *)
(***************************************************************************)
\* line 84
AgePassEnabled == options.expire # Null

CountPassEnabledForInfinity == options.maxNumberOfLogs # Null

\* line 105: maxNumberOfLogs !== null && maxNumberOfLogs < Infinity
CountPassEnabled == options.maxNumberOfLogs # Null /\ options.maxNumberOfLogs # Infinity

ExceedsFrom(count, limit) == limit # Infinity /\ count >= limit.n

\* line 119: numberLookedAt > maxNumberOfLogs; nothing exceeds Infinity.
Exceeds(count, limit) == limit # Infinity /\ count > limit.n

\* The count pass begins: its cursor opens on the last entry.
StartCountPass(ev, entries) ==
    [ev EXCEPT !.count = "running", !.cursor = Len(entries), !.before = entries]

\* The age pass is over: the transaction of the count pass may start.
AgePassOver(ev, result, entries) ==
    LET over == [ev EXCEPT !.age = result]
    IN  IF ev.count = "waiting" THEN StartCountPass(over, entries) ELSE over

\* lines 79-128 up to the first cursor event; t is the value of Date.now().
clearOldData(db, armed, t) ==
    IF ~db THEN eviction
    ELSE LET called == [eviction EXCEPT !.started = @ + 1, !.armedAtStart = armed]
             aged   == IF AgePassEnabled
                       THEN [called EXCEPT !.age = "running", !.before = store,
                                           !.oldest = t - options.expire.n]
                       ELSE [called EXCEPT !.age = "skipped"]
         IN  IF ~CountPassEnabled THEN [aged EXCEPT !.count = "skipped"]
             ELSE IF AgePassEnabled THEN [aged EXCEPT !.count = "waiting"]
             ELSE StartCountPass(aged, store)

\* The entries without the one at position p.
Delete(entries, p) == SubSeq(entries, 1, p - 1) \o SubSeq(entries, p + 1, Len(entries))

\* IDBKeyRange.lowerBound(oldest): the entries that have not expired.
InRangeLowerBound(entries, oldest) == {p \in DOMAIN entries : entries[p].timestamp.n >= oldest}

\* IDBKeyRange.upperBound(oldest, true) on the index "timestamp": the
\* positions of the entries whose timestamp is below `oldest`.
InRange(entries, oldest) == {p \in DOMAIN entries : entries[p].timestamp.n < oldest}

\* The first entry of the range in index order: lowest timestamp, then
\* lowest key.
FirstInRange(entries, oldest) ==
    CHOOSE p \in InRange(entries, oldest) :
        \A q \in InRange(entries, oldest) :
            \/ entries[p].timestamp.n < entries[q].timestamp.n
            \/ entries[p].timestamp.n = entries[q].timestamp.n /\ p <= q

\* storeCursor.onsuccess of the age pass, lines 95-102, with the onsuccess
\* of the delete request: the entry under the cursor is deleted and the
\* cursor continues; with no entry left in the range the transaction
\* completes.
ageCursor_onsuccess ==
    /\ eviction.age = "running"
    /\ IF InRange(store, eviction.oldest) # {}
       THEN /\ store' = Delete(store, FirstInRange(store, eviction.oldest))
            /\ UNCHANGED eviction
       ELSE /\ eviction' = AgePassOver(eviction, "complete", store)
            /\ UNCHANGED store
    /\ UNCHANGED apart
    /\ UNCHANGED <<options, hasCompressionStream, dbState, indexedDB, timerArmed, toFlush,
                   cycles, txns, now, built, raised, openErrorReported, flushed, exportCall,
                   batchCall>>

\* storeCursor.onerror of the age pass, lines 91-93: the error is logged;
\* the unhandled error aborts the transaction and its deletes are undone.
ageCursor_onerror ==
    /\ eviction.age = "running"
    /\ store' = eviction.before
    /\ eviction' = AgePassOver([eviction EXCEPT !.reported = TRUE], "failed", eviction.before)
    /\ UNCHANGED apart
    /\ UNCHANGED <<options, hasCompressionStream, dbState, indexedDB, timerArmed, toFlush,
                   cycles, txns, now, built, raised, openErrorReported, flushed, exportCall,
                   batchCall>>

\* storeCursor.onsuccess of the count pass, lines 115-126.
countCursor_onsuccess ==
    /\ eviction.count = "running"
    /\ LET numberLookedAt == eviction.numberLookedAt + 1
           cursor == eviction.cursor
       IN  IF cursor > 0
           THEN /\ store' = IF Exceeds(numberLookedAt, options.maxNumberOfLogs)
                            THEN Delete(store, cursor)
                            ELSE store
                /\ eviction' = [eviction EXCEPT !.numberLookedAt = numberLookedAt,
                                                !.cursor = cursor - 1]
           ELSE /\ eviction' = [eviction EXCEPT !.numberLookedAt = numberLookedAt,
                                                !.count = "complete"]
                /\ UNCHANGED store
    /\ UNCHANGED apart
    /\ UNCHANGED <<options, hasCompressionStream, dbState, indexedDB, timerArmed, toFlush,
                   cycles, txns, now, built, raised, openErrorReported, flushed, exportCall,
                   batchCall>>

\* storeCursor.onerror of the count pass, lines 111-113.
countCursor_onerror ==
    /\ eviction.count = "running"
    /\ store' = eviction.before
    /\ eviction' = [eviction EXCEPT !.count = "failed", !.reported = TRUE]
    /\ UNCHANGED apart
    /\ UNCHANGED <<options, hasCompressionStream, dbState, indexedDB, timerArmed, toFlush,
                   cycles, txns, now, built, raised, openErrorReported, flushed, exportCall,
                   batchCall>>

\* setupFlush(), lines 133-136: the interval and the listener are set.
setupFlush == TRUE

(***************************************************************************)
(* setup(): the three handlers of the open request.                        *)
(***************************************************************************)
\* openRequest.onupgradeneeded: this.indexedDB is assigned while the
\* versionchange transaction that creates the store is still running.  The
\* upgrade runs only when the database did not exist.
onupgradeneeded ==
    /\ dbState = "opening"
    /\ store = <<>>
    /\ dbState' = "upgrading"
    /\ indexedDB' = TRUE
    /\ UNCHANGED apart
    /\ UNCHANGED <<options, hasCompressionStream, timerArmed, toFlush, store, cycles, txns,
                   now, built, raised, openErrorReported>>
    /\ UNCHANGED readers

\* openRequest.onsuccess: assign the database, clearOldData(), setupFlush().
\* Date.now() is read (line 85) only when the age-based pass runs.
onsuccess(t) ==
    /\ dbState \in {"opening", "upgrading"}
    /\ t \in PassTimes /\ t >= now
    /\ dbState' = "open"
    /\ indexedDB' = TRUE
    /\ eviction' = clearOldData(TRUE, timerArmed, t)
    /\ now' = IF AgePassEnabled THEN t ELSE now
    /\ timerArmed' = setupFlush
    /\ UNCHANGED apart
    /\ UNCHANGED <<options, hasCompressionStream, toFlush, store, cycles, txns, built,
                   raised, openErrorReported, flushed, exportCall, batchCall>>

\* openRequest.onerror: the failure is logged, nothing else changes.
onerror ==
    /\ dbState \in {"opening", "upgrading"}
    /\ dbState' = "failed"
    /\ openErrorReported' = TRUE
    /\ UNCHANGED apart
    /\ UNCHANGED <<options, hasCompressionStream, indexedDB, timerArmed, toFlush, store,
                   cycles, txns, now, built, raised>>
    /\ UNCHANGED readers

(***************************************************************************)
(* log(message, details).                                                  *)
(***************************************************************************)
\* The record log() builds for its n-th record from one argument.
StoredDetails(n, timestamp, encoded) ==
    [timestamp |-> Num(timestamp), arguments |-> Arr(<<Str(encoded)>>),
     namespaces |-> Arr(<<Str("g")>>), level |-> Str("INFO"), message |-> Str(MessageText(n))]

\* this.toFlush.push(record)
Push(queue, record) == Append(queue, record)

\* The call is made at time t; details.timestamp is the time of the call.
\* The spread of line 209 copies the properties of details, so the record
\* holds the very array details.namespaces refers to.
backendLog(namespaces, argument, t) ==
    /\ built < MaxLogs
    /\ t \in Times /\ t >= now
    /\ now' = t
    /\ LET encoded == encode(argument)
           record == [StoredDetails(built + 1, t, encoded.value) EXCEPT
                          !.namespaces = namespaces]
       IN  IF encoded.threw
           THEN /\ raised' = TRUE
                /\ UNCHANGED <<toFlush, built>>
           ELSE /\ toFlush' = Push(toFlush, record)
                /\ built' = built + 1
                /\ UNCHANGED raised
    /\ UNCHANGED fileBackend
    /\ UNCHANGED <<options, hasCompressionStream, dbState, indexedDB, timerArmed, store,
                   cycles, txns, openErrorReported>>
    /\ UNCHANGED readers

\* log() called by a host that hands over an array of its own.
log(argument, t) ==
    /\ backendLog(Arr(<<Str("g")>>), argument, t)
    /\ UNCHANGED lumberjack

(***************************************************************************)
(* flushToDatabase().  A cycle is one invocation:                          *)
(*   pc       "compressing" (suspended at an await of lines 160-162),      *)
(*            "transaction" (the transaction is live, its requests         *)
(*            placed), "aborting" (the transaction failed and error events *)
(*            are still to be delivered to transaction.onerror), "done";   *)
(*   data     the batch swapped out of this.toFlush;                       *)
(*   seen     the batch as JSON.stringify read it at line 157;             *)
(*   adds     the values addData() hands to dataStore.add();               *)
(*   outcome  of the promise flush() returns: "pending", "resolved",       *)
(*            "rejected";                                                  *)
(*   commit   "none", "open", "complete", "aborted";                       *)
(*   errors   error events still to reach transaction.onerror;             *)
(*   reported console.error was called by transaction.onerror;             *)
(*   swapped  lines 150-151 ran; swapAt is the number of records built     *)
(*            when the batch was swapped.                                  *)
(***************************************************************************)
QueueIsEmptyNever(queue) == FALSE

\* line 142: this.toFlush.length === 0
QueueIsEmpty(queue) == Len(queue) = 0

ShouldCompressAbove(size) ==
    hasCompressionStream /\ size > options.minimumRecordsToCompress

\* line 155
ShouldCompress(size) ==
    hasCompressionStream /\ size >= options.minimumRecordsToCompress

\* lines 142-148: both early returns resolve the promise and touch nothing.
EarlyReturn ==
    [pc |-> "done", data |-> <<>>, seen |-> <<>>, adds |-> <<>>, outcome |-> "resolved",
     commit |-> "none", errors |-> 0, reported |-> FALSE, swapped |-> FALSE, swapAt |-> 0]

\* lines 150-151: the batch taken from the queue.
Swapped(data) ==
    [pc |-> "swapped", data |-> data, seen |-> <<>>, adds |-> <<>>, outcome |-> "pending",
     commit |-> "none", errors |-> 0, reported |-> FALSE, swapped |-> TRUE, swapAt |-> built]

\* line 164: one entry, the compressed batch tagged with Date.now().
CompressedAdds(data, t) == <<[timestamp |-> Num(t), buffer |-> Compress(data)]>>

\* lines 166-170: one entry per record, in batch order; add() stores a
\* structured clone of the record.
PlainAdds(data) == Snapshot(data)

\* lines 173-192, the promise executor.  this.indexedDB.transaction() raises
\* InvalidStateError while the versionchange transaction of the upgrade is
\* running and after a failed open; a raise inside the executor rejects.
Executor(cycle, adds) ==
    IF ~indexedDB
    THEN [cycle EXCEPT !.pc = "done", !.outcome = "resolved"]
    ELSE IF dbState # "open"
         THEN [cycle EXCEPT !.pc = "done", !.outcome = "rejected"]
         ELSE [cycle EXCEPT !.pc = "transaction", !.commit = "open", !.adds = adds]

flushToDatabase ==
    /\ Len(cycles) < MaxFlush
    /\ IF QueueIsEmpty(toFlush) \/ ~indexedDB
       THEN /\ cycles' = Append(cycles, EarlyReturn)
            /\ UNCHANGED <<toFlush, txns>>
       ELSE LET data == toFlush
                started == IF ShouldCompress(Len(data))
                           THEN [Swapped(data) EXCEPT !.pc = "compressing",
                                                      !.seen = Snapshot(data)]
                           ELSE Executor(Swapped(data), PlainAdds(data))
            IN  /\ toFlush' = <<>>
                /\ cycles' = Append(cycles, started)
                /\ txns' = IF started.pc = "transaction"
                           THEN Append(txns, Len(cycles) + 1)
                           ELSE txns
    /\ UNCHANGED apart
    /\ UNCHANGED <<options, hasCompressionStream, dbState, indexedDB, timerArmed, store, now,
                   built, raised, openErrorReported>>
    /\ UNCHANGED readers

\* flush(): the public entry point, callable in every state.
flush == flushToDatabase

timerFlushUnarmed == flushToDatabase

\* The interval timer and the beforeunload listener of setupFlush().
timerFlush == timerArmed /\ flushToDatabase

\* lines 160-164 complete: the buffer is ready and the executor runs.
compressionDone(c, t) ==
    /\ c \in DOMAIN cycles
    /\ cycles[c].pc = "compressing"
    /\ t \in Times /\ t >= now
    /\ now' = t
    /\ LET next == Executor(cycles[c], CompressedAdds(cycles[c].seen, t))
       IN  /\ cycles' = [cycles EXCEPT ![c] = next]
           /\ txns' = IF next.pc = "transaction" THEN Append(txns, c) ELSE txns
    /\ UNCHANGED apart
    /\ UNCHANGED <<options, hasCompressionStream, dbState, indexedDB, timerArmed, toFlush,
                   store, built, raised, openErrorReported>>
    /\ UNCHANGED readers

\* One of the awaits of lines 160-162 rejects: the async function rejects.
compressionFails(c) ==
    /\ c \in DOMAIN cycles
    /\ cycles[c].pc = "compressing"
    /\ cycles' = [cycles EXCEPT ![c].pc = "done", ![c].outcome = "rejected"]
    /\ UNCHANGED apart
    /\ UNCHANGED <<options, hasCompressionStream, dbState, indexedDB, timerArmed, toFlush,
                   store, txns, now, built, raised, openErrorReported>>
    /\ UNCHANGED readers

(***************************************************************************)
(* The transaction of a cycle.  Readwrite transactions on the same store   *)
(* run one at a time in creation order, so only the oldest live            *)
(* transaction makes progress.                                             *)
(***************************************************************************)
\* The store after the adds of a committed transaction: the key generator
\* hands out increasing keys, so the new entries follow all others.
Committed(entries, adds) == entries \o adds

\* transaction.oncomplete without the ordering of readwrite transactions:
\* the adds are committed while the transactions of clearOldData() run.
transaction_oncompleteUnordered(c) ==
    /\ txns # <<>> /\ c = Head(txns)
    /\ cycles[c].pc = "transaction"
    /\ store' = Committed(store, cycles[c].adds)
    /\ cycles' = [cycles EXCEPT ![c].pc = "done", ![c].outcome = "resolved",
                                ![c].commit = "complete"]
    /\ txns' = Tail(txns)
    /\ UNCHANGED apart
    /\ UNCHANGED <<options, hasCompressionStream, dbState, indexedDB, timerArmed, toFlush,
                   now, built, raised, openErrorReported>>
    /\ UNCHANGED readers

\* transaction.oncomplete, lines 186-188.  The two transactions of
\* clearOldData() (lines 87 and 107) are readwrite transactions on "logs"
\* too: one created before this one finishes before this one starts.
transaction_oncomplete(c) ==
    /\ txns # <<>> /\ c = Head(txns)
    /\ cycles[c].pc = "transaction"
    /\ eviction.age # "running" /\ eviction.count \notin {"waiting", "running"}
    /\ store' = Committed(store, cycles[c].adds)
    /\ cycles' = [cycles EXCEPT ![c].pc = "done", ![c].outcome = "resolved",
                                ![c].commit = "complete"]
    /\ txns' = Tail(txns)
    /\ UNCHANGED apart
    /\ UNCHANGED <<options, hasCompressionStream, dbState, indexedDB, timerArmed, toFlush,
                   now, built, raised, openErrorReported>>
    /\ UNCHANGED readers

\* The transaction fails and nothing is written.  When a request fails its
\* error event bubbles to the transaction, and so does the error event of
\* every request still pending when the transaction aborts: `e` is the
\* number of error events that reach transaction.onerror.  e = 0 is an
\* abort after every request succeeded (a failed commit): only the abort
\* event fires, for which the code registers no handler.
transactionFails(c, e) ==
    /\ txns # <<>> /\ c = Head(txns)
    /\ cycles[c].pc = "transaction"
    /\ e \in 0..Len(cycles[c].adds)
    /\ cycles' = [cycles EXCEPT ![c].commit = "aborted", ![c].errors = e,
                                ![c].pc = IF e = 0 THEN "done" ELSE "aborting"]
    /\ txns' = IF e = 0 THEN Tail(txns) ELSE txns
    /\ UNCHANGED apart
    /\ UNCHANGED <<options, hasCompressionStream, dbState, indexedDB, timerArmed, toFlush,
                   store, now, built, raised, openErrorReported>>
    /\ UNCHANGED readers

RequeueReplaces(queue, data) == data

RequeueInFront(queue, data) == data \o queue

\* line 181: this.toFlush.push(...data)
Requeue(queue, data) == queue \o data

\* transaction.onerror, lines 179-184, for one error event.
transaction_onerror(c) ==
    /\ txns # <<>> /\ c = Head(txns)
    /\ cycles[c].pc = "aborting"
    /\ toFlush' = Requeue(toFlush, cycles[c].data)
    /\ LET last == cycles[c].errors = 1
       IN  /\ cycles' = [cycles EXCEPT ![c].reported = TRUE, ![c].outcome = "rejected",
                                       ![c].errors = @ - 1,
                                       ![c].pc = IF last THEN "done" ELSE "aborting"]
           /\ txns' = IF last THEN Tail(txns) ELSE txns
    /\ UNCHANGED apart
    /\ UNCHANGED <<options, hasCompressionStream, dbState, indexedDB, timerArmed, store, now,
                   built, raised, openErrorReported>>
    /\ UNCHANGED readers

Next ==
    \/ onupgradeneeded
    \/ \E t \in PassTimes : onsuccess(t)
    \/ onerror
    \/ \E argument \in LogArguments : \E t \in Times : log(argument, t)
    \/ flush
    \/ timerFlush
    \/ \E c \in 1..MaxFlush : \E t \in Times : compressionDone(c, t)
    \/ \E c \in 1..MaxFlush : compressionFails(c)
    \/ \E c \in 1..MaxFlush : transaction_oncomplete(c)
    \/ \E c \in 1..MaxFlush : \E e \in 0..MaxErrorEvents : transactionFails(c, e)
    \/ \E c \in 1..MaxFlush : transaction_onerror(c)

Spec == Init /\ [][Next]_vars

(***************************************************************************)
(* export(), lines 254-277: an entry that carries a buffer is expanded     *)
(* into its records, any other entry is a record itself.                   *)
(***************************************************************************)
ExpandEntry(entry) ==
    IF "buffer" \in DOMAIN entry THEN decompress(entry.buffer) ELSE <<entry>>

RECURSIVE ExportFrom(_, _)
ExportFrom(entries, i) ==
    IF i > Len(entries) THEN <<>>
    ELSE ExpandEntry(entries[i]) \o ExportFrom(entries, i + 1)

Exported(entries) == ExportFrom(entries, 1)

\* line 257: "buffer" in cursor.value && cursor.value.buffer instanceof ArrayBuffer
IsCompressed(entry) == "buffer" \in DOMAIN entry

\* lines 239-243 and 282-286, the same in export() and exportBatch(): the
\* guard raises when this.indexedDB is unset; this.indexedDB.transaction()
\* raises InvalidStateError while the upgrade runs and after a failed open;
\* otherwise the promise is created.
OpenCursorOutcome ==
    IF ~indexedDB THEN "NotInitialised"
    ELSE IF dbState # "open" THEN "InvalidStateError"
    ELSE "pending"

(***************************************************************************)
(* export().  exportCall.pc is "idle", "threw" (the call raised), "cursor" *)
(* (a cursor request is pending), "decompressing" (line 258 is awaited;    *)
(* the cursor has not been continued), "stalled" (no request is pending    *)
(* and no callback is left) or "done" (the promise is settled).            *)
(***************************************************************************)
export ==
    /\ exportCall.pc = "idle" /\ batchCall.pc = "idle"
    /\ exportCall' = IF OpenCursorOutcome = "pending"
                     THEN [NotExporting EXCEPT !.pc = "cursor", !.calledIn = dbState,
                                               !.outcome = "pending", !.cursor = 1]
                     ELSE [NotExporting EXCEPT !.pc = "threw", !.calledIn = dbState,
                                               !.outcome = OpenCursorOutcome]
    /\ UNCHANGED apart
    /\ UNCHANGED <<options, hasCompressionStream, dbState, indexedDB, timerArmed, toFlush,
                   store, cycles, txns, now, built, raised, openErrorReported, flushed,
                   eviction, batchCall>>

\* opened.onsuccess, lines 254-277.
export_onsuccess ==
    /\ exportCall.pc = "cursor"
    /\ LET p == exportCall.cursor
       IN  exportCall' =
               IF p > Len(store)
               THEN [exportCall EXCEPT !.pc = "done", !.outcome = "resolved"]
               ELSE IF IsCompressed(store[p])
                    THEN [exportCall EXCEPT !.pc = "decompressing"]
                    ELSE [exportCall EXCEPT !.data = Append(@, store[p]), !.cursor = p + 1]
    /\ UNCHANGED apart
    /\ UNCHANGED <<options, hasCompressionStream, dbState, indexedDB, timerArmed, toFlush,
                   store, cycles, txns, now, built, raised, openErrorReported, flushed,
                   eviction, batchCall>>

\* The callback of lines 259-262.  It runs when the streams of decompress()
\* have delivered the content; `active` tells whether the transaction of
\* the cursor is still active then.  It is when the content arrives in the
\* microtasks of the cursor's own event; once the event is over the
\* transaction, with no request pending, is inactive and commits, and
\* cursor.continue() raises TransactionInactiveError inside the callback:
\* no further event arrives and the promise of export() is never settled.
export_decompressed(active) ==
    /\ exportCall.pc = "decompressing"
    /\ LET p == exportCall.cursor
       IN  exportCall' = [exportCall EXCEPT !.data = @ \o decompress(store[p].buffer),
                                           !.cursor = IF active THEN p + 1 ELSE p,
                                           !.pc = IF active THEN "cursor" ELSE "stalled"]
    /\ UNCHANGED apart
    /\ UNCHANGED <<options, hasCompressionStream, dbState, indexedDB, timerArmed, toFlush,
                   store, cycles, txns, now, built, raised, openErrorReported, flushed,
                   eviction, batchCall>>

\* opened.onerror, lines 249-252.
export_onerror ==
    /\ exportCall.pc = "cursor"
    /\ exportCall' = [exportCall EXCEPT !.pc = "done", !.outcome = "rejected",
                                        !.reported = TRUE]
    /\ UNCHANGED apart
    /\ UNCHANGED <<options, hasCompressionStream, dbState, indexedDB, timerArmed, toFlush,
                   store, cycles, txns, now, built, raised, openErrorReported, flushed,
                   eviction, batchCall>>

(***************************************************************************)
(* exportBatch(entryRunner, entriesAtOnce).  batchCall holds the locals of *)
(* the executor: buffered, empty, remainingPromises (one element per call  *)
(* of entryRunner: the entries handed over and whether the promise it      *)
(* returned is settled); decompressing is the set of positions of the      *)
(* entries whose decompress() promise is still pending; waits has one      *)
(* number per Promise.all(remainingPromises) of line 301, the length of    *)
(* the array when it was called.  pc is "idle", "threw", "cursor",         *)
(* "exhausted" (the cursor delivered null) or "failed" (opened.onerror).   *)
(***************************************************************************)
\* entryRunner(buffered): the promise of one consumer invocation, pending;
\* `failed` tells a rejected promise from a fulfilled one once it is settled.
entryRunner(entries) == [entries |-> entries, settled |-> FALSE, failed |-> FALSE]

sendBufferedKeepsBuffer(call) ==
    LET send == Len(call.buffered) >= call.entriesAtOnce \/ call.empty
        sent == IF send
                THEN [call EXCEPT !.remainingPromises = Append(@, entryRunner(call.buffered))]
                ELSE call
    IN  IF call.empty
        THEN [sent EXCEPT !.waits = @ \union {Len(sent.remainingPromises)}]
        ELSE sent

\* sendBuffered, lines 294-304.
sendBuffered(call) ==
    LET send == Len(call.buffered) >= call.entriesAtOnce \/ call.empty
        sent == IF send
                THEN [call EXCEPT !.remainingPromises = Append(@, entryRunner(call.buffered)),
                                  !.buffered = <<>>]
                ELSE call
    IN  IF call.empty
        THEN [sent EXCEPT !.waits = @ \union {Len(sent.remainingPromises)}]
        ELSE sent

\* lines 301-302: a Promise.all whose promises are all fulfilled calls
\* res().  One whose promises include a rejected one is rejected, and so is
\* the promise then() returns: no callback is registered for that.
PromiseAll(call) ==
    IF /\ call.outcome = "pending"
       /\ \E n \in call.waits :
              \A i \in 1..n : /\ call.remainingPromises[i].settled
                               /\ ~call.remainingPromises[i].failed
    THEN [call EXCEPT !.outcome = "resolved"]
    ELSE call

exportBatch(entriesAtOnce) ==
    /\ exportCall.pc = "idle" /\ batchCall.pc = "idle"
    /\ batchCall' = IF OpenCursorOutcome = "pending"
                    THEN [NotExportingBatches EXCEPT !.pc = "cursor", !.calledIn = dbState,
                                                     !.outcome = "pending", !.cursor = 1,
                                                     !.entriesAtOnce = entriesAtOnce]
                    ELSE [NotExportingBatches EXCEPT !.pc = "threw", !.calledIn = dbState,
                                                     !.outcome = OpenCursorOutcome]
    /\ UNCHANGED apart
    /\ UNCHANGED <<options, hasCompressionStream, dbState, indexedDB, timerArmed, toFlush,
                   store, cycles, txns, now, built, raised, openErrorReported, flushed,
                   eviction, exportCall>>

\* opened.onsuccess, lines 311-341: a compressed entry starts its
\* decompress() and the cursor continues at once.
exportBatch_onsuccess ==
    /\ batchCall.pc = "cursor"
    /\ LET p == batchCall.cursor
       IN  batchCall' =
               IF p > Len(store)
               THEN sendBuffered([batchCall EXCEPT !.empty = TRUE, !.pc = "exhausted"])
               ELSE IF IsCompressed(store[p])
                    THEN [batchCall EXCEPT !.decompressing = @ \union {p}, !.cursor = p + 1]
                    ELSE sendBuffered([batchCall EXCEPT !.buffered = Append(@, store[p]),
                                                        !.cursor = p + 1])
    /\ UNCHANGED apart
    /\ UNCHANGED <<options, hasCompressionStream, dbState, indexedDB, timerArmed, toFlush,
                   store, cycles, txns, now, built, raised, openErrorReported, flushed,
                   eviction, exportCall>>

\* The callback of lines 316-319 for the entry at position p; the pending
\* decompressions finish in any order, before or after later cursor events.
exportBatch_decompressed(p) ==
    /\ p \in batchCall.decompressing
    /\ batchCall' = sendBuffered([batchCall EXCEPT
                                     !.decompressing = @ \ {p},
                                     !.buffered = @ \o decompress(store[p].buffer)])
    /\ UNCHANGED apart
    /\ UNCHANGED <<options, hasCompressionStream, dbState, indexedDB, timerArmed, toFlush,
                   store, cycles, txns, now, built, raised, openErrorReported, flushed,
                   eviction, exportCall>>

exportBatch_onerrorOnlyReports ==
    /\ batchCall.pc = "cursor"
    /\ batchCall' = [batchCall EXCEPT !.pc = "failed", !.reported = TRUE]
    /\ UNCHANGED apart
    /\ UNCHANGED <<options, hasCompressionStream, dbState, indexedDB, timerArmed, toFlush,
                   store, cycles, txns, now, built, raised, openErrorReported, flushed,
                   eviction, exportCall>>

\* opened.onerror, lines 306-309.
exportBatch_onerror ==
    /\ batchCall.pc = "cursor"
    /\ batchCall' = [batchCall EXCEPT !.pc = "failed", !.outcome = "rejected",
                                      !.reported = TRUE]
    /\ UNCHANGED apart
    /\ UNCHANGED <<options, hasCompressionStream, dbState, indexedDB, timerArmed, toFlush,
                   store, cycles, txns, now, built, raised, openErrorReported, flushed,
                   eviction, exportCall>>

\* The promise the i-th consumer invocation returned is fulfilled.
entryRunner_resolves(i) ==
    /\ i \in DOMAIN batchCall.remainingPromises
    /\ ~batchCall.remainingPromises[i].settled
    /\ batchCall' = PromiseAll([batchCall EXCEPT !.remainingPromises[i].settled = TRUE])
    /\ UNCHANGED apart
    /\ UNCHANGED <<options, hasCompressionStream, dbState, indexedDB, timerArmed, toFlush,
                   store, cycles, txns, now, built, raised, openErrorReported, flushed,
                   eviction, exportCall>>

\* The promise the i-th consumer invocation returned is rejected.
entryRunner_rejects(i) ==
    /\ i \in DOMAIN batchCall.remainingPromises
    /\ ~batchCall.remainingPromises[i].settled
    /\ batchCall' = PromiseAll([batchCall EXCEPT !.remainingPromises[i].settled = TRUE,
                                                 !.remainingPromises[i].failed = TRUE])
    /\ UNCHANGED apart
    /\ UNCHANGED <<options, hasCompressionStream, dbState, indexedDB, timerArmed, toFlush,
                   store, cycles, txns, now, built, raised, openErrorReported, flushed,
                   eviction, exportCall>>

(***************************************************************************)
(* The store an earlier instance left behind: a sequence of committed      *)
(* batches.  The records are numbered in the order log() built them, their *)
(* timestamps never decrease, a batch is flushed no earlier than its last  *)
(* record was logged and no earlier than the batch before it, and every    *)
(* batch was committed either as one compressed entry or record by record  *)
(* (the earlier instance had its own options).                             *)
(***************************************************************************)
EarlierBatch(first, stamps, compressed, at) ==
    LET data == [i \in 1..Len(stamps) |-> StoredDetails(first + i - 1, stamps[i], "7")]
    IN  [data |-> data,
         adds |-> IF compressed THEN CompressedAdds(data, at) ELSE PlainAdds(data)]

Stamps(size, from) ==
    {stamps \in [1..size -> Times] :
        /\ stamps[1] >= from
        /\ \A i \in 1..(size - 1) : stamps[i] <= stamps[i + 1]}

RECURSIVE Histories(_, _, _, _)
Histories(first, left, from, flushFrom) ==
    {<<>>} \union
    UNION {UNION {UNION {UNION {
        {<<EarlierBatch(first, stamps, compressed, at)>> \o rest :
            rest \in Histories(first + size, left - size, stamps[size], at)} :
        at \in {t \in Times : t >= stamps[size] /\ t >= flushFrom}} :
        compressed \in BOOLEAN} :
        stamps \in Stamps(size, from)} :
        size \in 1..left}

\* One flush of the five records R1..R5, below the compression threshold.
ScenarioHistory ==
    <<EarlierBatch(1, [i \in ScenarioNumbers |-> IF i <= 3 THEN 0 ELSE 1], FALSE, 1)>>

RECURSIVE Entries(_)
Entries(history) ==
    IF history = <<>> THEN <<>> ELSE Head(history).adds \o Entries(Tail(history))

RECURSIVE Records(_)
Records(history) ==
    IF history = <<>> THEN <<>> ELSE Head(history).data \o Records(Tail(history))

(***************************************************************************)
(* The eviction pass at startup, over the store an earlier instance left.  *)
(* No record is logged, so every flush cycle is one of the timer and finds *)
(* the queue empty.                                                        *)
(***************************************************************************)
EvictionInit ==
    /\ options \in [minimumRecordsToCompress : {1},
                     expire : {Null} \union {Num(e) : e \in ExpireValues},
                     maxNumberOfLogs : {Null, Infinity} \union {Num(m) : m \in LimitValues}]
    /\ hasCompressionStream = TRUE
    /\ flushed \in Histories(1, MaxStored, 0, 0) \union {ScenarioHistory}
    /\ store = Entries(flushed)
    /\ dbState = "opening"
    /\ indexedDB = FALSE
    /\ timerArmed = FALSE
    /\ toFlush = <<>>
    /\ cycles = <<>>
    /\ txns = <<>>
    /\ now = 0
    /\ built = 0
    /\ raised = FALSE
    /\ openErrorReported = FALSE
    /\ lumberjack = NewLumberjack
    /\ fileBackend = NewFileBackend
    /\ eviction = NoEviction
    /\ exportCall = NotExporting
    /\ batchCall = NotExportingBatches

EvictionNext ==
    \/ onupgradeneeded
    \/ \E t \in PassTimes : onsuccess(t)
    \/ onerror
    \/ timerFlush
    \/ ageCursor_onsuccess
    \/ ageCursor_onerror
    \/ countCursor_onsuccess
    \/ countCursor_onerror

EvictionSpec == EvictionInit /\ [][EvictionNext]_vars

(***************************************************************************)
(* export() and exportBatch() over the store an earlier instance left, at  *)
(* any moment of the startup, with eviction disabled; one of the two is    *)
(* invoked, once.  Neither reads a timestamp, so the records of the store  *)
(* all carry the same one.                                                 *)
(***************************************************************************)
LastTime == CHOOSE t \in Times : \A u \in Times : u <= t

ExportInit ==
    /\ options \in [minimumRecordsToCompress : {1}, expire : {Null}, maxNumberOfLogs : {Null}]
    /\ hasCompressionStream = TRUE
    /\ flushed \in Histories(1, MaxStored, LastTime, LastTime)
    /\ store = Entries(flushed)
    /\ dbState = "opening"
    /\ indexedDB = FALSE
    /\ timerArmed = FALSE
    /\ toFlush = <<>>
    /\ cycles = <<>>
    /\ txns = <<>>
    /\ now = 0
    /\ built = 0
    /\ raised = FALSE
    /\ openErrorReported = FALSE
    /\ lumberjack = NewLumberjack
    /\ fileBackend = NewFileBackend
    /\ eviction = NoEviction
    /\ exportCall = NotExporting
    /\ batchCall = NotExportingBatches

ExportNext ==
    \/ onupgradeneeded
    \/ \E t \in PassTimes : onsuccess(t)
    \/ onerror
    \/ export
    \/ export_onsuccess
    \/ \E active \in BOOLEAN : export_decompressed(active)
    \/ export_onerror
    \/ \E entriesAtOnce \in BatchSizes : exportBatch(entriesAtOnce)
    \/ exportBatch_onsuccess
    \/ \E p \in 1..MaxStored : exportBatch_decompressed(p)
    \/ exportBatch_onerror
    \/ \E i \in 1..(MaxStored + 1) : entryRunner_resolves(i)

ExportSpec == ExportInit /\ [][ExportNext]_vars

(***************************************************************************)
(* The Lumberjack facade (src/unnamed/part_003) in front of the batched    *)
(* store.  The facade keeps one array, this.namespaces; group() and        *)
(* groupCollapsed() push a title on it, groupEnd() pops it, and            *)
(* sendToBackend() hands the array itself to backend.log().                *)
(***************************************************************************)
MaxGroups == 2      \* calls of group(), groupCollapsed() and groupEnd()

\* The titles group() is called with; undefined and "" are both falsy.
GroupTitles == {"", "g"}

\* lines 178-186
group(groupTitle) ==
    /\ lumberjack.calls < MaxGroups
    /\ lumberjack' = [lumberjack EXCEPT !.namespaces = Append(@, Str(groupTitle)),
                                        !.calls = @ + 1]
    /\ UNCHANGED <<options, hasCompressionStream, dbState, indexedDB, timerArmed, toFlush,
                   store, cycles, txns, now, built, raised, openErrorReported, fileBackend>>
    /\ UNCHANGED readers

\* lines 192-200: the same as group() for the backend.
groupCollapsed(groupTitle) == group(groupTitle)

\* lines 205-208: pop() of an empty array leaves it empty.
groupEnd ==
    /\ lumberjack.calls < MaxGroups
    /\ lumberjack' = [lumberjack EXCEPT
                          !.namespaces = IF @ = <<>> THEN @ ELSE SubSeq(@, 1, Len(@) - 1),
                          !.calls = @ + 1]
    /\ UNCHANGED <<options, hasCompressionStream, dbState, indexedDB, timerArmed, toFlush,
                   store, cycles, txns, now, built, raised, openErrorReported, fileBackend>>
    /\ UNCHANGED readers

\* lines 129-141, called by debug(), error(), info(), ...: `namespaces:
\* this.namespaces` passes the array of the facade, not a copy.
sendToBackend(argument, t) ==
    /\ backendLog(Live, argument, t)
    /\ lumberjack' = [lumberjack EXCEPT !.atCall = Append(@, lumberjack.namespaces)]

\* The facade and a backend whose store is about to open, constructed with
\* eviction disabled.
FacadeInit ==
    /\ Init
    /\ options.minimumRecordsToCompress = 2

FacadeNext ==
    \/ \E t \in PassTimes : onsuccess(t)
    \/ \E groupTitle \in GroupTitles : group(groupTitle)
    \/ \E groupTitle \in GroupTitles : groupCollapsed(groupTitle)
    \/ groupEnd
    \/ \E t \in Times : sendToBackend(ArgSeven, t)
    \/ timerFlush
    \/ \E c \in 1..MaxFlush : \E t \in Times : compressionDone(c, t)
    \/ \E c \in 1..MaxFlush : transaction_oncomplete(c)

FacadeSpec == FacadeInit /\ [][FacadeNext]_vars

(***************************************************************************)
(* FileBackend (src/src/Backends/IndexedDBBackend.ts, lines 355-429): a    *)
(* write stream on one file.  Text is a sequence of pieces, each a message *)
(* or the delimiter "\r\n".  stream.write(chunk) always takes the chunk    *)
(* into the stream's buffer; it returns false when the buffer has reached  *)
(* the high-water mark, and the stream then emits "drain" once the buffer  *)
(* has been written out.                                                   *)
(***************************************************************************)
MaxLines == 3       \* log() calls on the stream backend
MaxWrites == 5      \* calls of stream.write()

\* Everything but the stream backend.
batchedStore ==
    <<options, hasCompressionStream, dbState, indexedDB, timerArmed, toFlush, store, cycles,
      txns, now, built, raised, openErrorReported, lumberjack, readers>>

CRLF == "\r\n"

\* line 411: messages.join("\r\n")
Join(messages) ==
    [i \in 1..(2 * Len(messages) - 1) |-> IF i % 2 = 1 THEN messages[(i + 1) \div 2] ELSE CRLF]

writeBeforeReady(fb, messages, successful) ==
    IF Len(messages) = 0
    THEN fb
    ELSE [fb EXCEPT !.written = Append(@, Join(messages)),
                    !.needDrain = @ \/ ~successful,
                    !.deferred = IF successful THEN @ ELSE Append(@, messages)]

\* write(messages), lines 393-419, on the backend fb; `successful` is what
\* stream.write() returns.
write(fb, messages, successful) ==
    IF Len(messages) = 0
    THEN fb
    ELSE IF ~fb.ready
         THEN [fb EXCEPT !.waiting = @ \o messages]
         ELSE [fb EXCEPT !.written = Append(@, Join(messages)),
                         !.needDrain = @ \/ ~successful,
                         !.deferred = IF successful THEN @ ELSE Append(@, messages)]

\* The "ready" listener of setup(), lines 382-386; the stream emits "ready"
\* once, when the file has been opened.
stream_onready(successful) ==
    /\ ~fileBackend.ready
    /\ LET isReady == [fileBackend EXCEPT !.ready = TRUE]
       IN  fileBackend' = [write(isReady, isReady.waiting, successful) EXCEPT !.waiting = <<>>]
    /\ UNCHANGED batchedStore

\* log(message, details), lines 426-428.
FileBackend_log(successful) ==
    /\ fileBackend.logged < MaxLines
    /\ Len(fileBackend.written) < MaxWrites
    /\ LET message == MessageText(fileBackend.logged + 1)
       IN  fileBackend' = [write(fileBackend, <<message>>, successful) EXCEPT !.logged = @ + 1]
    /\ UNCHANGED batchedStore

\* The once("drain") listeners of lines 415-417, run in the order they were
\* registered; each calls write() with its own messages.
RECURSIVE RunListeners(_, _, _)
RunListeners(fb, listeners, outcomes) ==
    IF listeners = <<>> THEN fb
    ELSE RunListeners(write(fb, Head(listeners), Head(outcomes)), Tail(listeners),
                      Tail(outcomes))

\* The stream emits "drain": its buffer is empty again.
stream_ondrain(outcomes) ==
    /\ fileBackend.needDrain
    /\ Len(outcomes) = Len(fileBackend.deferred)
    /\ Len(fileBackend.written) + Len(fileBackend.deferred) <= MaxWrites
    /\ fileBackend' = RunListeners([fileBackend EXCEPT !.needDrain = FALSE, !.deferred = <<>>],
                                   fileBackend.deferred, outcomes)
    /\ UNCHANGED batchedStore

\* The bytes the stream has been given, in order.
RECURSIVE Content(_)
Content(chunks) == IF chunks = <<>> THEN <<>> ELSE Head(chunks) \o Content(Tail(chunks))

FileInit ==
    /\ Init
    /\ options.minimumRecordsToCompress = 1 /\ ~hasCompressionStream

FileNext ==
    \/ \E successful \in BOOLEAN : stream_onready(successful)
    \/ \E successful \in BOOLEAN : FileBackend_log(successful)
    \/ \E n \in 1..MaxWrites : \E outcomes \in [1..n -> BOOLEAN] : stream_ondrain(outcomes)

FileSpec == FileInit /\ [][FileNext]_vars

(***************************************************************************)
(* log() called with every kind of argument on a backend whose store       *)
(* opens and whose cycles commit.                                          *)
(***************************************************************************)
EncodeNext ==
    \/ \E t \in PassTimes : onsuccess(t)
    \/ \E argument \in AllArguments : \E t \in Times : log(argument, t)
    \/ timerFlush
    \/ \E c \in 1..MaxFlush : \E t \in Times : compressionDone(c, t)
    \/ \E c \in 1..MaxFlush : transaction_oncomplete(c)

EncodeSpec == Init /\ [][EncodeNext]_vars

(***************************************************************************)
(* The batched store under the scheduling the platform provides, on a      *)
(* platform without CompressionStream: an armed interval timer fires again *)
(* and again (setInterval, line 134), a live transaction completes or      *)
(* aborts, and the error events of an aborted transaction are delivered.   *)
(***************************************************************************)
FairInit == Init /\ ~hasCompressionStream

FairNext ==
    \/ onupgradeneeded
    \/ \E t \in PassTimes : onsuccess(t)
    \/ onerror
    \/ \E argument \in LogArguments : \E t \in Times : log(argument, t)
    \/ flush
    \/ timerFlush
    \/ \E c \in 1..MaxFlush : transaction_oncomplete(c)
    \/ \E c \in 1..MaxFlush : \E e \in 0..MaxErrorEvents : transactionFails(c, e)
    \/ \E c \in 1..MaxFlush : transaction_onerror(c)

FairSpec ==
    /\ FairInit /\ [][FairNext]_vars
    /\ WF_vars(timerFlush)
    /\ \A c \in 1..MaxFlush :
           /\ WF_vars(transaction_oncomplete(c)
                          \/ \E e \in 0..MaxErrorEvents : transactionFails(c, e))
           /\ WF_vars(transaction_onerror(c))

(***************************************************************************)
(* The eviction pass at startup while records are logged and flushed: the  *)
(* store an earlier instance left, both sub-passes enabled, no             *)
(* CompressionStream.  The records logged carry the argument "a", those of *)
(* the earlier instance the argument 7.                                    *)
(***************************************************************************)
OverlapInit ==
    /\ options \in [minimumRecordsToCompress : {1},
                     expire : {Num(e) : e \in ExpireValues \ {2}},
                     maxNumberOfLogs : {Num(m) : m \in LimitValues \ {3}}]
    /\ hasCompressionStream = FALSE
    /\ flushed \in Histories(1, MaxStored - 1, 0, 0)
    /\ store = Entries(flushed)
    /\ dbState = "opening"
    /\ indexedDB = FALSE
    /\ timerArmed = FALSE
    /\ toFlush = <<>>
    /\ cycles = <<>>
    /\ txns = <<>>
    /\ now = 0
    /\ built = 0
    /\ raised = FALSE
    /\ openErrorReported = FALSE
    /\ lumberjack = NewLumberjack
    /\ fileBackend = NewFileBackend
    /\ eviction = NoEviction
    /\ exportCall = NotExporting
    /\ batchCall = NotExportingBatches

OverlapNext ==
    \/ \E t \in PassTimes : onsuccess(t)
    \/ \E t \in Times : log(ArgText, t)
    \/ timerFlush
    \/ \E c \in 1..MaxFlush : transaction_oncomplete(c)
    \/ ageCursor_onsuccess
    \/ ageCursor_onerror
    \/ countCursor_onsuccess
    \/ countCursor_onerror

OverlapSpec == OverlapInit /\ [][OverlapNext]_vars

(***************************************************************************)
(* export() and exportBatch() under fair scheduling: a cursor event that   *)
(* is due is delivered and the promise of a consumer invocation is         *)
(* settled.  That a pending decompression delivers its content is a        *)
(* premise of the properties checked under this specification.  The        *)
(* consumer is any function that returns a promise: its promises may be    *)
(* rejected.                                                               *)
(***************************************************************************)
ExportFairNext ==
    \/ ExportNext
    \/ \E i \in 1..(MaxStored + 1) : entryRunner_rejects(i)

ExportFairSpec ==
    /\ ExportInit /\ [][ExportFairNext]_vars
    /\ WF_vars(export_onsuccess)
    /\ WF_vars(exportBatch_onsuccess)
    /\ \A i \in 1..(MaxStored + 1) :
           WF_vars(entryRunner_resolves(i) \/ entryRunner_rejects(i))

(***************************************************************************)
(* Vocabulary of the properties.                                           *)
(***************************************************************************)
Range(seq) == {seq[i] : i \in DOMAIN seq}

\* The number of a record: log() built it as its n-th record.
RecordNumber(record) == CHOOSE n \in MessageNumbers : MessageText(n) = record.message.s

Numbers(seq) == {RecordNumber(seq[i]) : i \in DOMAIN seq}

\* The cycles that swapped a batch out of the queue.
SwappedCycles == {c \in DOMAIN cycles : cycles[c].swapped}

\* The commit of cycle c failed and every event of the failure was delivered.
CommitFailed(c) == cycles[c].commit = "aborted" /\ cycles[c].pc = "done"

(***************************************************************************)
(* C1.  No data loss on a failed commit: whenever the durable commit of a  *)
(* swapped batch B has failed, every record of B is in the pending queue,  *)
(* or was swapped from it into the batch of a later cycle, or is durable.  *)
(* The code violates it: an abort that raises no error event re-queues     *)
(* nothing.                                                                *)
(***************************************************************************)
C1_FailedBatchIsRequeued ==
    \A c \in DOMAIN cycles :
        CommitFailed(c) =>
            \A i \in DOMAIN cycles[c].data :
                \/ cycles[c].data[i] \in Range(toFlush)
                \/ \E d \in DOMAIN cycles : d > c /\ cycles[c].data[i] \in Range(cycles[d].data)
                \/ cycles[c].data[i] \in Range(Exported(store))

(***************************************************************************)
(* C2.  The batch of a flush cycle is private: a record that log() queued  *)
(* after cycle c swapped its batch is neither in the batch of c nor in the *)
(* entries c hands to the store, and it is in the pending queue or in the  *)
(* batch of another cycle; this holds in every state, so also when c       *)
(* finishes, whether it succeeds or fails.                                 *)
(***************************************************************************)
C2_LaterRecordsStayOutOfTheBatch ==
    \A c \in SwappedCycles :
        LET batch   == Numbers(cycles[c].data)
            written == Numbers(Exported(cycles[c].adds))
            queued  == Numbers(toFlush)
            others  == UNION {Numbers(cycles[d].data) : d \in SwappedCycles \ {c}}
        IN  \A n \in (cycles[c].swapAt + 1)..built :
                /\ n \notin batch
                /\ n \notin written
                /\ n \in queued \union others

\* C2, witness: a cycle has failed and was reported, and a record built
\* after its swap is still in the queue, ahead of the re-queued batch.
C2_Witness ==
    \E c \in SwappedCycles :
        /\ CommitFailed(c) /\ cycles[c].reported
        /\ Len(toFlush) > Len(cycles[c].data)
        /\ RecordNumber(toFlush[1]) > cycles[c].swapAt
        /\ toFlush[Len(toFlush)] = cycles[c].data[Len(cycles[c].data)]

(***************************************************************************)
(* C3 as claimed.  After transaction.onerror has run for cycle c, every    *)
(* record of the failed batch precedes, in the pending queue, every record *)
(* that was queued after the batch was swapped out.                        *)
(***************************************************************************)
C3_FailedBatchGoesToTheFront ==
    [][\A c \in DOMAIN cycles :
          (cycles[c].pc = "aborting" /\ cycles'[c].errors < cycles[c].errors) =>
              \A i, j \in DOMAIN toFlush' :
                  (/\ toFlush'[i] \in Range(cycles[c].data)
                   /\ RecordNumber(toFlush'[j]) > cycles[c].swapAt) => i < j]_vars

(***************************************************************************)
(* C3 as amended.  transaction.onerror appends the failed batch at the end *)
(* of the pending queue: the queue after the handler is the queue before   *)
(* it followed by the records of the batch, in batch order.                *)
(***************************************************************************)
C3_FailedBatchIsAppended ==
    [][\A c \in DOMAIN cycles :
          (cycles[c].pc = "aborting" /\ cycles'[c].errors < cycles[c].errors) =>
              toFlush' = toFlush \o cycles[c].data]_vars

\* C3, witness: the handler of a failed batch has run once, and the queue
\* is one record queued after the swap followed by the batch.
C3_Witness ==
    \E c \in SwappedCycles :
        /\ cycles[c].commit = "aborted" /\ cycles[c].reported
        /\ Len(toFlush) = 1 + Len(cycles[c].data)
        /\ RecordNumber(toFlush[1]) > cycles[c].swapAt
        /\ SubSeq(toFlush, 2, Len(toFlush)) = cycles[c].data

(***************************************************************************)
(* C4.  The outcome of flush() reflects the commit: a cycle that swapped a *)
(* batch and is over ended rejected exactly when its batch was not         *)
(* committed, and when the batch was committed it ended resolved, reported *)
(* no error and left no record of the batch in the pending queue.  The     *)
(* code violates it: after an abort without an error event the promise is  *)
(* neither rejected nor resolved.                                          *)
(***************************************************************************)
C4_OutcomeReflectsCommit ==
    \A c \in SwappedCycles :
        cycles[c].pc = "done" =>
            /\ (cycles[c].outcome = "rejected") <=> (cycles[c].commit # "complete")
            /\ cycles[c].commit = "complete" =>
                   /\ cycles[c].outcome = "resolved"
                   /\ ~cycles[c].reported
                   /\ Range(cycles[c].data) \cap Range(toFlush) = {}

(***************************************************************************)
(* C5.  Every invocation of flush() settles once its attempt is over: a    *)
(* cycle that has ended, in whichever way, has a resolved or rejected      *)
(* promise.  No action changes a cycle that has ended, so a cycle that     *)
(* ends pending stays pending.  The code violates it on an abort without   *)
(* an error event.                                                         *)
(***************************************************************************)
C5_FlushSettles ==
    \A c \in DOMAIN cycles : cycles[c].pc = "done" => cycles[c].outcome # "pending"

(***************************************************************************)
(* C6.  flush() on an empty pending queue is a no-op: the step that adds   *)
(* the invocation leaves the queue empty, the store and the live           *)
(* transactions unchanged, hands nothing to the store and resolves; the    *)
(* property is about every such step, so about any number of calls.        *)
(***************************************************************************)
C6_EmptyFlushIsNoOp ==
    [][(Len(cycles') = Len(cycles) + 1 /\ toFlush = <<>>) =>
          /\ toFlush' = <<>>
          /\ store' = store
          /\ txns' = txns
          /\ SubSeq(cycles', 1, Len(cycles)) = cycles
          /\ LET call == cycles'[Len(cycles')]
             IN  /\ call.pc = "done" /\ call.outcome = "resolved"
                 /\ call.commit = "none" /\ call.adds = <<>> /\ ~call.swapped]_vars

\* C6, witness: the first cycle committed every record built so far, so the
\* second invocation found the store open and the queue empty, and resolved.
C6_Witness ==
    /\ Len(cycles) = 2
    /\ cycles[1].commit = "complete" /\ built = Len(cycles[1].data)
    /\ ~cycles[2].swapped /\ cycles[2].outcome = "resolved"
    /\ toFlush = <<>> /\ Len(store) = Len(cycles[1].adds)

(***************************************************************************)
(* C7.  log() never raises to its caller, whatever the arguments.  The     *)
(* code violates it: JSON.stringify raises on a cyclic object and neither  *)
(* encode nor log catches it.                                              *)
(***************************************************************************)
C7_LogNeverRaises == raised = FALSE

(***************************************************************************)
(* C8.  Every log() call appends exactly one record at the end of the      *)
(* pending queue and changes nothing else of the backend.  The code        *)
(* violates it for a call that raises (C7): that call appends nothing.     *)
(***************************************************************************)
C8_LogAppendsOneRecord ==
    [][(built' # built \/ raised' # raised) =>
          /\ Len(toFlush') = Len(toFlush) + 1
          /\ SubSeq(toFlush', 1, Len(toFlush)) = toFlush
          /\ UNCHANGED <<store, cycles, txns, dbState, indexedDB, timerArmed, options>>]_vars

(***************************************************************************)
(* C9.  The commit of a batch B adds its entries after the entries already *)
(* stored and changes none of those: one entry that carries a buffer and   *)
(* the time of the flush when compression is available and                 *)
(* |B| >= minimumRecordsToCompress, otherwise the records of B, one entry  *)
(* each, in batch order.                                                   *)
(***************************************************************************)
C9_EntriesOfACommit ==
    [][\A c \in DOMAIN cycles :
          (cycles[c].commit = "open" /\ cycles'[c].commit = "complete") =>
              LET B == cycles[c].data
                  added == SubSeq(store', Len(store) + 1, Len(store'))
              IN  /\ SubSeq(store', 1, Len(store)) = store
                  /\ IF hasCompressionStream /\ Len(B) >= options.minimumRecordsToCompress
                     THEN /\ Len(added) = 1
                          /\ DOMAIN added[1] = {"timestamp", "buffer"}
                          /\ added[1].timestamp.n <= now
                          /\ \A i \in DOMAIN B : B[i].timestamp.n <= added[1].timestamp.n
                     ELSE added = B]_vars

\* C9, witness: a batch of exactly minimumRecordsToCompress records, two of
\* them, was committed as the single entry of the store.
C9_Witness ==
    \E c \in DOMAIN cycles :
        /\ cycles[c].commit = "complete"
        /\ hasCompressionStream
        /\ Len(cycles[c].data) = options.minimumRecordsToCompress
        /\ Len(cycles[c].data) = 2
        /\ Len(store) = 1 /\ "buffer" \in DOMAIN store[1]

(***************************************************************************)
(* C10.  Round trip of compression: the entry of a committed batch B with  *)
(* |B| >= minimumRecordsToCompress is in the store, and expanding it as    *)
(* export() does yields the records of B, same fields, same order.         *)
(***************************************************************************)
C10_CompressedEntryExpandsToItsBatch ==
    \A c \in DOMAIN cycles :
        (/\ cycles[c].commit = "complete"
         /\ hasCompressionStream
         /\ Len(cycles[c].data) >= options.minimumRecordsToCompress) =>
            \E k \in DOMAIN store :
                /\ store[k] = cycles[c].adds[1]
                /\ ExpandEntry(store[k]) = cycles[c].data

\* C10, witness: a compressed entry that holds two different records is in
\* the store.
C10_Witness ==
    \E c \in DOMAIN cycles :
        /\ cycles[c].commit = "complete"
        /\ Len(cycles[c].data) >= 2
        /\ cycles[c].data[1] # cycles[c].data[2]
        /\ \E k \in DOMAIN store :
               "buffer" \in DOMAIN store[k] /\ store[k] = cycles[c].adds[1]

(***************************************************************************)
(* Vocabulary of the properties of export, exportBatch and eviction.       *)
(***************************************************************************)
\* The invocation of export() is over: its promise is settled, or no event
\* and no callback is left that could settle it.
ExportOver == exportCall.pc \in {"done", "stalled"}

\* The eviction pass has completed: clearOldData() was called and each of
\* its two passes was skipped or ran to its end.
PassCompleted ==
    /\ eviction.started = 1
    /\ eviction.age \in {"skipped", "complete"}
    /\ eviction.count \in {"skipped", "complete"}

\* Every batch of the history was committed record by record.
AllPlain(history) == \A b \in DOMAIN history : history[b].adds = history[b].data

\* The age rule and the count rule for a record of the history: now - t <= e
\* with now the Date.now() of the pass, and a place among the m most
\* recently inserted records.
YoungEnough(record) == AgePassEnabled => record.timestamp.n >= eviction.oldest

AmongMostRecent(record) ==
    CountPassEnabled =>
        RecordNumber(record) > Len(Records(flushed)) - options.maxNumberOfLogs.n

Survives(record) == YoungEnough(record) /\ AmongMostRecent(record)

\* exportBatch(): the cursor is exhausted and no decompression is pending.
BatchQuiescent == batchCall.pc = "exhausted" /\ batchCall.decompressing = {}

\* The records handed to the consumer, in the order of the invocations.
RECURSIVE DispatchedFrom(_, _)
DispatchedFrom(promises, i) ==
    IF i > Len(promises) THEN <<>>
    ELSE promises[i].entries \o DispatchedFrom(promises, i + 1)

Dispatched == DispatchedFrom(batchCall.remainingPromises, 1)

Ceiling(m, k) == (m + k - 1) \div k

(***************************************************************************)
(* C11.  Export completeness: an invocation of export() on the open store  *)
(* that is over and met no cursor error has resolved with the records of   *)
(* all flushed batches, in commit order and batch order, compressed        *)
(* entries expanded.  The code violates it: when the content of a          *)
(* compressed entry arrives after the cursor's transaction went inactive,  *)
(* cursor.continue() raises inside the callback and export() never         *)
(* returns.                                                                *)
(***************************************************************************)
C11_ExportReturnsFlushedRecords ==
    (ExportOver /\ ~exportCall.reported) =>
        /\ exportCall.outcome = "resolved"
        /\ exportCall.data = Records(flushed)

(***************************************************************************)
(* C12.  export() and exportBatch() invoked before the store has finished  *)
(* opening (while it opens, while the upgrade runs, after a failed open)   *)
(* raise the "not initialised" error and read nothing.  The code violates  *)
(* it: onupgradeneeded assigns this.indexedDB, so during the upgrade, and  *)
(* after an open that failed once the upgrade had begun, the guard passes  *)
(* and this.indexedDB.transaction() raises InvalidStateError instead.      *)
(***************************************************************************)
C12_ExportBeforeOpenIsNotInitialised ==
    /\ (exportCall.pc # "idle" /\ exportCall.calledIn # "open") =>
           /\ exportCall.pc = "threw" /\ exportCall.outcome = "NotInitialised"
           /\ exportCall.data = <<>>
    /\ (batchCall.pc # "idle" /\ batchCall.calledIn # "open") =>
           /\ batchCall.pc = "threw" /\ batchCall.outcome = "NotInitialised"
           /\ batchCall.buffered = <<>> /\ batchCall.remainingPromises = <<>>

C14_ExportedRecordsWithinLimit ==
    (PassCompleted /\ eviction.count = "complete") =>
        Len(Exported(store)) <= options.maxNumberOfLogs.n

(***************************************************************************)
(* C15.  After a completed age-based pass no record export() returns has a *)
(* timestamp below now - expire, inside compressed entries too.  The code  *)
(* violates it: a compressed entry is indexed by the time of its flush,    *)
(* not by the timestamps of the records in it.                             *)
(***************************************************************************)
C15_NoExportedRecordIsExpired ==
    (PassCompleted /\ eviction.age = "complete") =>
        \A i \in DOMAIN Exported(store) :
            Exported(store)[i].timestamp.n >= eviction.oldest

(***************************************************************************)
(* C16.  With expire null the pass opens no age cursor, with               *)
(* maxNumberOfLogs null or Infinity it opens no count cursor, and with     *)
(* both disabled the store stays what it was, whatever it holds.           *)
(***************************************************************************)
C16_DisabledPassesDeleteNothing ==
    /\ options.expire = Null => eviction.age \in {"none", "skipped"}
    /\ options.maxNumberOfLogs \in {Null, Infinity} =>
           eviction.count \in {"none", "skipped"}
    /\ (options.expire = Null /\ options.maxNumberOfLogs \in {Null, Infinity}) =>
           store = Entries(flushed)

\* C16, witness: the pass ran with expire null and maxNumberOfLogs Infinity
\* over a store that holds a compressed entry and a plain record.
C16_Witness ==
    /\ PassCompleted
    /\ options.expire = Null /\ options.maxNumberOfLogs = Infinity
    /\ \E p, q \in DOMAIN store : IsCompressed(store[p]) /\ ~IsCompressed(store[q])

(***************************************************************************)
(* C17.  The promise of exportBatch() resolves only after the cursor is    *)
(* exhausted, every record is dispatched and every consumer invocation has *)
(* completed.  The code violates it: the Promise.all of the cursor's last  *)
(* event covers the invocations dispatched so far; a compressed entry      *)
(* whose content arrives later is dispatched after the promise resolved.   *)
(***************************************************************************)
C17_ResolvesAfterEveryInvocation ==
    batchCall.outcome = "resolved" =>
        /\ BatchQuiescent
        /\ batchCall.buffered = <<>>
        /\ \A i \in DOMAIN batchCall.remainingPromises :
               batchCall.remainingPromises[i].settled

(***************************************************************************)
(* C18.  exportBatch() with batch size k over M records dispatches         *)
(* ceil(M/k) consumer invocations.  The code violates it: the cursor's     *)
(* last event always dispatches the buffer, empty or not, so an empty      *)
(* store gets one invocation and M = k gets two.                           *)
(***************************************************************************)
C18_InvocationCountIsCeiling ==
    BatchQuiescent =>
        Len(batchCall.remainingPromises)
            = Ceiling(Len(Exported(store)), batchCall.entriesAtOnce)

(***************************************************************************)
(* C19.  exportBatch() hands every durable record to the consumer exactly  *)
(* once: at no moment has a record been handed over or buffered twice, or  *)
(* a record that is not in the store; and once the cursor is exhausted and *)
(* no decompression is pending, the buffer is empty and the invocations    *)
(* hold every record of the store.                                         *)
(***************************************************************************)
C19_EveryRecordDispatchedOnce ==
    LET handed == Dispatched \o batchCall.buffered
        stored == Exported(store)
    IN  /\ \A i, j \in DOMAIN handed : i # j => handed[i] # handed[j]
        /\ Range(handed) \subseteq Range(stored)
        /\ BatchQuiescent =>
               /\ batchCall.buffered = <<>>
               /\ Range(Dispatched) = Range(stored)
               /\ Len(Dispatched) = Len(stored)

\* C19, witness: every record was dispatched, in several invocations, and
\* a compressed entry arrived late: the records were not handed over in
\* the order of the store.
C19_Witness ==
    /\ BatchQuiescent
    /\ Len(batchCall.remainingPromises) >= 2
    /\ Len(Dispatched) = Len(Exported(store))
    /\ Dispatched # Exported(store)

(***************************************************************************)
(* C20.  Startup ordering: clearOldData() is called at most once, and only *)
(* by a successful open; the periodic flush is armed only after that call  *)
(* was made; no cycle of the timer exists unless the store is open (every  *)
(* cycle of this specification is one of the timer); after a failed open   *)
(* neither was started.  No action leaves the state "failed".              *)
(***************************************************************************)
C20_StartupOrdering ==
    /\ eviction.started <= 1
    /\ (eviction.started = 1) <=> (dbState = "open")
    /\ timerArmed => (eviction.started = 1 /\ ~eviction.armedAtStart)
    /\ cycles # <<>> => dbState = "open"
    /\ dbState = "failed" =>
           /\ ~timerArmed /\ eviction.started = 0
           /\ eviction.age = "none" /\ eviction.count = "none"

\* C20, witness: the store is open, both passes of the one eviction pass
\* ran to their end and a cycle of the timer has run.
C20_Witness ==
    /\ dbState = "open" /\ timerArmed /\ eviction.started = 1
    /\ eviction.age = "complete" /\ eviction.count = "complete"
    /\ cycles # <<>>

(***************************************************************************)
(* Third vocabulary: the queue only grew at its end, the records that are  *)
(* held somewhere, the number of places a record is held in.               *)
(***************************************************************************)
\* `after` is `before` with records appended.
Extends(after, before) ==
    Len(after) >= Len(before) /\ SubSeq(after, 1, Len(before)) = before

(***************************************************************************)
(* C21.  A store that cannot be opened leaves the backend inert: once the  *)
(* open has failed the failure was reported, no step writes a durable      *)
(* entry, no step removes a record from the pending queue (a log() call    *)
(* appends its record, a flush leaves the queue alone) and no call raises  *)
(* to the host.  The code violates it: after an upgrade that began and     *)
(* then failed this.indexedDB is set, so flush() swaps the queue out and   *)
(* the batch is dropped when this.indexedDB.transaction() raises.          *)
(***************************************************************************)
C21_FailedOpenLeavesBackendInert ==
    [][dbState = "failed" =>
           /\ openErrorReported
           /\ store' = store
           /\ Extends(toFlush', toFlush)
           /\ (built' # built => Len(toFlush') = Len(toFlush) + 1)
           /\ (cycles' # cycles => toFlush' = toFlush)
           /\ raised' = raised]_vars

(***************************************************************************)
(* C22.  The namespaces of every durable record are the namespace stack as *)
(* it was when the facade logged the record.  The code violates it: the    *)
(* record holds the facade's own array, which group() and groupEnd()       *)
(* change in place, so the store receives the stack as it is when the      *)
(* flush reads the record.                                                 *)
(***************************************************************************)
C22_NamespacesAreThoseOfTheCall ==
    \A k \in DOMAIN Exported(store) :
        LET record == Exported(store)[k]
        IN  record.namespaces = Arr(lumberjack.atCall[RecordNumber(record)])

\* The messages of a chunk of text, its delimiters left out.
IsMessage(piece) == piece # CRLF

\* The messages of the first n log() calls on the stream backend.
Logged(n) == [i \in 1..n |-> MessageText(i)]

(***************************************************************************)
(* C23.  The stream backend before and after "ready".  Until the stream is *)
(* ready nothing was written and the waiting buffer holds the messages of  *)
(* all log() calls in call order; a log() call then only appends to it.    *)
(* The ready signal writes the waiting buffer as one write that holds its  *)
(* messages in order (no write when it is empty) and empties it.  From     *)
(* then on the waiting buffer stays empty and every log() call hands its   *)
(* message to stream.write() at once.                                      *)
(***************************************************************************)
C23_WaitingBufferIsWrittenOnReady ==
    [][LET fb == fileBackend
           after == fileBackend'
           message == MessageText(fb.logged + 1)
       IN  /\ ~fb.ready => (fb.written = <<>> /\ fb.waiting = Logged(fb.logged))
           /\ fb.ready => fb.waiting = <<>>
           /\ (~fb.ready /\ after.logged # fb.logged) =>
                  (after.waiting = Append(fb.waiting, message) /\ after.written = <<>>)
           /\ (~fb.ready /\ after.ready) =>
                  /\ after.waiting = <<>>
                  /\ fb.waiting = <<>> => after.written = <<>>
                  /\ fb.waiting # <<>> =>
                         /\ Len(after.written) = 1
                         /\ SelectSeq(after.written[1], IsMessage) = fb.waiting
           /\ (fb.ready /\ after.logged # fb.logged) =>
                  after.written = Append(fb.written, <<message>>)]_vars

\* C23, witness: two messages waited and were written by one write when the
\* stream became ready; the third log() call wrote its message at once.
C23_Witness ==
    /\ fileBackend.ready /\ fileBackend.waiting = <<>>
    /\ fileBackend.written = <<<<MessageText(1), CRLF, MessageText(2)>>, <<MessageText(3)>>>>

(***************************************************************************)
(* C24.  Backpressure on the stream backend: from the write the stream     *)
(* answered with false until its drain signal, a log() call hands nothing  *)
(* to stream.write(), and at most one deferred write waits for the drain.  *)
(* The code violates both: write() never looks at the state of the stream, *)
(* so every log() call writes at once and every refused write registers    *)
(* its own drain listener.                                                 *)
(***************************************************************************)
C24_OneDeferredWriteUnderBackpressure ==
    [][/\ Len(fileBackend'.deferred) <= 1
       /\ (fileBackend.needDrain /\ fileBackend'.logged # fileBackend.logged) =>
              fileBackend'.written = fileBackend.written]_vars

(***************************************************************************)
(* C25.  The output of the stream backend is newline-delimited: in the     *)
(* text the stream was given, two messages never follow one another        *)
(* without a delimiter between them.  The code violates it: the delimiter  *)
(* is put only between the messages of one write, so the messages of two   *)
(* writes are adjacent.                                                    *)
(***************************************************************************)
C25_MessagesAreDelimited ==
    LET text == Content(fileBackend.written)
    IN  \A i \in 1..(Len(text) - 1) : ~(IsMessage(text[i]) /\ IsMessage(text[i + 1]))

(***************************************************************************)
(* C26.  A cursor error fails the whole export: the step in which          *)
(* opened.onerror runs rejects the promise of export() or exportBatch(),   *)
(* a rejected promise stays rejected whatever happens later, and a batch   *)
(* handed to the consumer of exportBatch() is never taken back or changed. *)
(***************************************************************************)
C26_CursorErrorFailsTheExport ==
    [][/\ (exportCall'.reported /\ ~exportCall.reported) => exportCall'.outcome = "rejected"
       /\ (batchCall'.reported /\ ~batchCall.reported) => batchCall'.outcome = "rejected"
       /\ exportCall.outcome = "rejected" => exportCall'.outcome = "rejected"
       /\ batchCall.outcome = "rejected" => batchCall'.outcome = "rejected"
       /\ \A i \in DOMAIN batchCall.remainingPromises :
              /\ i \in DOMAIN batchCall'.remainingPromises
              /\ batchCall'.remainingPromises[i].entries =
                     batchCall.remainingPromises[i].entries]_vars

\* C26, witness: the cursor of exportBatch() failed after batches of plain
\* records had been handed to the consumer, one of which it has finished,
\* and with records still unread in the store.
C26_Witness ==
    /\ batchCall.pc = "failed" /\ batchCall.outcome = "rejected" /\ batchCall.reported
    /\ AllPlain(flushed) /\ batchCall.cursor <= Len(store)
    /\ Len(batchCall.remainingPromises) >= 2
    /\ \E i \in DOMAIN batchCall.remainingPromises : batchCall.remainingPromises[i].settled

(***************************************************************************)
(* C27.  The encoder maps every non-object argument to its string form:    *)
(* a log() call with a number, a boolean or a string queues a record whose *)
(* argument is String(v).  The code violates it: encode returns "" for     *)
(* every falsy value, so 0 and false are stored as the empty string.       *)
(***************************************************************************)
C27_NonObjectsAreStoredAsTheirStringForm ==
    [][\A argument \in AllArguments : \A t \in Times :
          (argument.typeof # "object" /\ log(argument, t)) =>
              /\ Len(toFlush') = Len(toFlush) + 1
              /\ toFlush'[Len(toFlush')].arguments = Arr(<<Str(argument.str)>>)]_vars

\* The numbers of the records held in memory: those of the pending queue
\* and of the batches of the cycles that have not finished.
InMemory ==
    Numbers(toFlush) \union
        UNION {Numbers(cycles[c].data) : c \in {d \in SwappedCycles : cycles[d].pc # "done"}}

(***************************************************************************)
(* C28.  No record is lost: once the store is open, every record log() was *)
(* given is in the pending queue, in the batch of a cycle that has not     *)
(* finished, or in the durable store.  The code violates it: the batch is  *)
(* dropped when compression fails, when this.indexedDB.transaction()       *)
(* raises, and when the transaction aborts without an error event.         *)
(***************************************************************************)
C28_NoRecordIsLost ==
    dbState = "open" => \A n \in 1..built : n \in InMemory \union Numbers(Exported(store))

\* How often the record with number n occurs in a sequence of records.
Occurrences(seq, n) == Cardinality({i \in DOMAIN seq : RecordNumber(seq[i]) = n})

\* The cycles that hold their batch: swapped, not finished, and not yet
\* handed back to the queue by transaction.onerror.
Holding == {c \in SwappedCycles : cycles[c].pc # "done" /\ ~cycles[c].reported}

(***************************************************************************)
(* C29.  No record is duplicated: every logged record occurs at most once  *)
(* in the pending queue and the batches held by running cycles taken       *)
(* together, and at most once in the durable store.  The code violates it: *)
(* transaction.onerror pushes the whole batch onto the queue for every     *)
(* error event that reaches it, and a failed transaction with several add  *)
(* requests delivers several.                                              *)
(***************************************************************************)
C29_NoRecordIsDuplicated ==
    \A n \in 1..built :
        /\ Occurrences(toFlush, n) <= 1
        /\ Occurrences(Exported(store), n) <= 1
        /\ \A c \in Holding :
               /\ Occurrences(cycles[c].data, n) <= 1
               /\ n \in Numbers(cycles[c].data) =>
                      /\ n \notin Numbers(toFlush)
                      /\ \A d \in Holding \ {c} : n \notin Numbers(cycles[d].data)

\* The record with number n is in the durable store.
Durable(n) == n \in Numbers(Exported(store))

(***************************************************************************)
(* C30.  Eventual durability: in every behaviour in which the store opens  *)
(* and the timer goes on firing, so that a non-empty pending queue is      *)
(* always swapped out again (only finitely many commits fail in any        *)
(* behaviour of the model), every record log() queued is eventually in the *)
(* durable store.  The code violates it: a batch whose compression fails   *)
(* or whose transaction aborts without an error event is never written.    *)
(***************************************************************************)
C30_EveryRecordBecomesDurable ==
    (/\ <>[](dbState = "open")
     /\ [](toFlush # <<>> => <>(toFlush = <<>>)))
        => \A n \in 1..MaxLogs : [](built >= n => <>Durable(n))

\* The positions of the store whose entry holds a record of the batch of
\* cycle c.
EntriesOf(c) ==
    {k \in DOMAIN store : Numbers(ExpandEntry(store[k])) \cap Numbers(cycles[c].data) # {}}

(***************************************************************************)
(* C31.  Durable order follows flush-attempt order: when two cycles both   *)
(* committed and the first swapped its batch out before the second, every  *)
(* entry of the first batch precedes every entry of the second in the      *)
(* store.  The code violates it: the transaction of a cycle is created     *)
(* only after the awaits of its compression, so a later cycle can create   *)
(* its transaction, and commit, first.                                     *)
(***************************************************************************)
C31_DurableOrderFollowsSwapOrder ==
    \A c \in SwappedCycles : \A d \in SwappedCycles :
        (c < d /\ cycles[c].commit = "complete" /\ cycles[d].commit = "complete") =>
            \A i \in EntriesOf(c) : \A j \in EntriesOf(d) : i < j

\* The cycles in flight: the batch is swapped out and its commit is still
\* undecided (the compression or the transaction is running).
InFlight == {c \in SwappedCycles : cycles[c].pc \in {"compressing", "transaction"}}

(***************************************************************************)
(* C32.  Cycles in flight at the same time own disjoint batches: no record *)
(* is in the batches of two cycles in flight, and no record is in the      *)
(* batch of a cycle in flight and in the pending queue.  The code violates *)
(* it: transaction.onerror pushes the failed batch onto the queue once per *)
(* error event, so the batch is swapped out by a later cycle and then      *)
(* pushed onto the queue again.                                            *)
(***************************************************************************)
C32_BatchesInFlightAreDisjoint ==
    \A c \in InFlight :
        /\ Numbers(cycles[c].data) \cap Numbers(toFlush) = {}
        /\ \A d \in InFlight \ {c} : Numbers(cycles[c].data) \cap Numbers(cycles[d].data) = {}

\* The age sub-pass run to its end on its own, lines 84-103: the cursor
\* steps of ageCursor_onsuccess, one after the other.
RECURSIVE AgeSubPass(_, _)
AgeSubPass(entries, oldest) ==
    IF InRange(entries, oldest) = {} THEN entries
    ELSE AgeSubPass(Delete(entries, FirstInRange(entries, oldest)), oldest)

\* The count sub-pass run to its end on its own, lines 105-127: the cursor
\* steps of countCursor_onsuccess from position `cursor` down.
RECURSIVE CountSubPass(_, _, _)
CountSubPass(entries, cursor, numberLookedAt) ==
    IF cursor = 0 THEN entries
    ELSE CountSubPass(IF Exceeds(numberLookedAt + 1, options.maxNumberOfLogs)
                      THEN Delete(entries, cursor)
                      ELSE entries,
                      cursor - 1, numberLookedAt + 1)

\* The store the pass found after both sub-passes run to their ends, the
\* age sub-pass first (the order of lines 84-127) or second.
BothSubPasses(ageFirst) ==
    LET found == Entries(flushed)
        aged == AgeSubPass(found, eviction.oldest)
    IN  IF ageFirst
        THEN CountSubPass(aged, Len(aged), 0)
        ELSE AgeSubPass(CountSubPass(found, Len(found), 0), eviction.oldest)

(***************************************************************************)
(* C33.  The two eviction sub-passes are order-independent: for every      *)
(* store, whether or not its insertion order is its timestamp order, the   *)
(* age sub-pass followed by the count sub-pass leaves the same store as    *)
(* the count sub-pass followed by the age sub-pass.  Stated for the store  *)
(* and the instant of a call of clearOldData() with both passes enabled.   *)
(***************************************************************************)
C33_SubPassesCommute ==
    (eviction.started = 1 /\ AgePassEnabled /\ CountPassEnabled) =>
        BothSubPasses(TRUE) = BothSubPasses(FALSE)

\* C33 as the code has it: the two orders agree on the stores whose
\* entries were inserted in the order of their timestamps, and the pass of
\* the code, age first, leaves that store.
C33_SubPassesCommuteInTimestampOrder ==
    (eviction.started = 1 /\ AgePassEnabled /\ CountPassEnabled) =>
        LET found == Entries(flushed)
        IN  /\ (\A p \in DOMAIN found : \A q \in DOMAIN found :
                    p < q => found[p].timestamp.n <= found[q].timestamp.n)
                   => BothSubPasses(TRUE) = BothSubPasses(FALSE)
            /\ PassCompleted => store = BothSubPasses(TRUE)

\* C33, witness: a completed pass over a store in timestamp order, of which
\* the age sub-pass deletes an entry and the count sub-pass a further one.
C33_Witness ==
    LET found == Entries(flushed)
        aged == AgeSubPass(found, eviction.oldest)
    IN  /\ PassCompleted /\ AgePassEnabled /\ CountPassEnabled
        /\ \A p \in DOMAIN found : \A q \in DOMAIN found :
               p < q => found[p].timestamp.n <= found[q].timestamp.n
        /\ store = BothSubPasses(FALSE)
        /\ Len(store) < Len(aged) /\ Len(aged) < Len(found)

C35_ExportEventuallySettles ==
    []<>(exportCall.pc # "decompressing") =>
        ((exportCall.outcome = "pending") ~>
            (/\ exportCall.outcome \in {"resolved", "rejected"}
             /\ exportCall.outcome = "resolved" => exportCall.data = Exported(store)))

(***************************************************************************)
(* C36.  Every consumer invocation of exportBatch() with batch size k      *)
(* receives at least 1 and at most k records.  The code violates it on     *)
(* both sides: the content of a compressed entry is pushed whole before    *)
(* the length is tested, and on the cursor's last event the buffer is      *)
(* handed over whatever its length, empty included.                        *)
(***************************************************************************)
C36_BatchesHoldOneToKRecords ==
    \A i \in DOMAIN batchCall.remainingPromises :
        /\ Len(batchCall.remainingPromises[i].entries) >= 1
        /\ Len(batchCall.remainingPromises[i].entries) <= batchCall.entriesAtOnce

(***************************************************************************)
(* C37.  exportBatch() preserves the store order: once the cursor is       *)
(* exhausted and no decompression is pending, the batches handed to the    *)
(* consumer, concatenated in dispatch order, are the sequence export()     *)
(* returns for the same store.  The code violates it: the cursor moves on  *)
(* without waiting for a decompression, so the records of a compressed     *)
(* entry are handed over after those of the entries that follow it.        *)
(***************************************************************************)
C37_BatchesFollowTheStoreOrder ==
    BatchQuiescent => Dispatched = Exported(store)

(***************************************************************************)
(* C38.  exportBatch() eventually settles: once the cursor is exhausted,   *)
(* with every pending decompression delivering its content and every       *)
(* consumer invocation settling, the promise is eventually rejected, or    *)
(* resolved with no consumer invocation failed.  The code violates it:     *)
(* when a consumer invocation fails, Promise.all is rejected and nothing   *)
(* calls rej, so the promise stays pending for ever.                       *)
(***************************************************************************)
C38_ExportBatchEventuallySettles ==
    []<>(batchCall.decompressing = {}) =>
        ((batchCall.pc = "exhausted") ~>
            \/ batchCall.outcome = "rejected"
            \/ /\ batchCall.outcome = "resolved"
               /\ \A i \in DOMAIN batchCall.remainingPromises :
                      ~batchCall.remainingPromises[i].failed)

(***************************************************************************)
(* C39.  Exactly-once delivery on the stream backend: every message log()  *)
(* was given is either in the waiting buffer or in the text the stream has *)
(* taken, once in all.  The code violates it: stream.write() takes the     *)
(* chunk also when it answers false, and the drain listener writes the     *)
(* same messages again.                                                    *)
(***************************************************************************)
C39_EachMessageIsDeliveredOnce ==
    LET held == SelectSeq(Content(fileBackend.written), IsMessage) \o fileBackend.waiting
    IN  \A n \in 1..fileBackend.logged :
            Cardinality({i \in DOMAIN held : held[i] = MessageText(n)}) = 1

(***************************************************************************)
(* C40.  Ordering on the stream backend: the messages in the text the      *)
(* stream was given follow the order of their log() calls.  The code       *)
(* violates it: a message logged while a write waits for the drain is      *)
(* written at once, and the drain listener then writes the earlier         *)
(* messages again, behind it.                                              *)
(***************************************************************************)
C40_MessagesFollowCallOrder ==
    LET text == SelectSeq(Content(fileBackend.written), IsMessage)
    IN  \A i \in DOMAIN text : \A j \in DOMAIN text :
            i < j => \A a \in 1..fileBackend.logged : \A b \in 1..fileBackend.logged :
                         (text[i] = MessageText(a) /\ text[j] = MessageText(b)) => a <= b

====
